---- MODULE Spec2Model ----
(***************************************************************************)
(* Item5e (module/documents/item.mjs): usage resolution and resource       *)
(* consumption (use, _getUsageUpdates, _handleConsumeResource) and damage  *)
(* scaling (_scaleCantripDamage, _scaleSpellDamage, _scaleDamage).         *)
(*                                                                         *)
(* Four specifications share the variables:                                *)
(*   SpecResolve  one call of _getUsageUpdates on every item/actor/config  *)
(*                of the bounded input space;                              *)
(*   Spec         overlapping use() calls on one item of one actor, cut    *)
(*                at the awaits of use();                                  *)
(*   SpecScale    the scaling block of rollDamage on bounded formulas;     *)
(*   SpecDerive   one call of a function that derives data from the item   *)
(*                (getCriticalThreshold, _prepareAdvancement).             *)
(***************************************************************************)
EXTENDS Integers, Sequences, FiniteSets, TLC

VARIABLES
  world,    \* the documents: the item, the actor's system data, its other items
  phase,    \* SpecResolve: "ready" | "resolved"
  config,   \* SpecResolve: the ItemUseConfiguration handed to _getUsageUpdates
  usage,    \* SpecResolve: what _getUsageUpdates returned and the warnings it emitted
  world0,   \* history: the documents as they were at Init
  procs,    \* Spec: the use() calls in flight, one record per caller
  calls,    \* Spec: number of use() calls started so far
  granted,  \* Spec, history: units the successful resolutions have taken, by resource
  dmg,      \* SpecScale: the inputs and the outcome of rollDamage's scaling block
  derived   \* SpecDerive: the inputs and the result of a function that derives data

vars == <<world, phase, config, usage, world0, procs, calls, granted, dmg, derived>>

-----------------------------------------------------------------------------
(* Bounds of the model *)

MaxUses == 2        \* largest uses.value / uses.max / quantity of an item
MaxAmount == 2      \* largest consume.amount
MaxLevels == 2      \* largest number of levels of a class item
MaxSlots == 2       \* largest number of spell slots in a pool
MaxCalls == 2       \* use() calls started in one behaviour
MaxDice == 2        \* largest number of dice in a die term
MaxSpellLevel == 5  \* largest base / cast level of a levelled spell
MaxLevel == 20      \* largest character level / challenge rating / caster level
MaxReduction == 2   \* how far below 20 a stored critical threshold goes

-----------------------------------------------------------------------------
(* JavaScript values *)

\* null / undefined is the empty set, a present value v is {v}
None == {}
Some(v) == {v}
IsNull(o) == o = {}
Val(o) == CHOOSE v \in o : TRUE
\* o ?? d
Coalesce(o, d) == IF IsNull(o) THEN d ELSE Val(o)
\* Number(o) for a number or null: Number(null) is 0
NumberOf(o) == IF IsNull(o) THEN 0 ELSE Val(o)

Max(a, b) == IF a >= b THEN a ELSE b
Min(a, b) == IF a <= b THEN a ELSE b

\* the empty object {} / the empty array []
EmptyObj == <<>>
IsEmpty(f) == DOMAIN f = {}
\* obj[key] = value
Put(f, k, v) == [x \in (DOMAIN f) \cup {k} |-> IF x = k THEN v ELSE f[x]]

\* consumeSpellLevel: null, a number, or "pact"
NoLevel == [tag |-> "null", n |-> 0]
NumLevel(n) == [tag |-> "num", n |-> n]
PactLevel == [tag |-> "pact", n |-> 0]
Truthy(level) == level.tag = "pact" \/ (level.tag = "num" /\ level.n # 0)

-----------------------------------------------------------------------------
(* _getUsageUpdates and _handleConsumeResource                              *)
(*                                                                         *)
(* A resolution threads one record through its steps: the documents it     *)
(* reads (world), the three buckets it fills, the warnings it has emitted  *)
(* and whether it is still going (ok = FALSE once a step returned false).  *)
(* Keys of actorUpdates are the paths below "system." of the actor.        *)

NewRun(w) ==
  [world |-> w, itemUpdates |-> EmptyObj, actorUpdates |-> EmptyObj,
   resourceUpdates |-> <<>>, warnings |-> <<>>, ok |-> TRUE]

\* ui.notifications.warn(...); return false
WarnAndFail(st, msg) == [st EXCEPT !.warnings = Append(@, msg), !.ok = FALSE]

\* Consume Recharge
ConsumeRecharge(st, cfg) ==
  IF ~cfg.consumeRecharge THEN st
  ELSE IF st.world.item.recharge.charged = Some(FALSE)
       THEN WarnAndFail(st, "DND5E.ItemNoUses")
       ELSE [st EXCEPT !.itemUpdates = Put(@, "system.recharge.charged", FALSE)]

\* "d6" < "d8" < "d10" < "d12" under localeCompare(..., {numeric: true})
Faces(hitDice) ==
  CASE hitDice = "d6" -> 6
    [] hitDice = "d8" -> 8
    [] hitDice = "d10" -> 10
    [] hitDice = "d12" -> 12
    [] OTHER -> 0

\* mutant: the comparison is not inverted for "largest"
CompareHitDiceAscending(w, lhs, rhs, target) ==
  LET l == Faces(w.items[lhs].hitDice)
      r == Faces(w.items[rhs].hitDice)
  IN IF l < r THEN -1 ELSE IF l > r THEN 1 ELSE 0

\* the comparator handed to resource.sort: negative, zero or positive
CompareHitDice(w, lhs, rhs, target) ==
  LET l == Faces(w.items[lhs].hitDice)
      r == Faces(w.items[rhs].hitDice)
      sort == IF l < r THEN -1 ELSE IF l > r THEN 1 ELSE 0
  IN IF target = "largest" THEN -1 * sort ELSE sort

\* Array.prototype.sort is stable: an element goes after every element it does not precede
RECURSIVE InsertSorted(_, _, _, _)
InsertSorted(w, sorted, id, target) ==
  IF sorted = <<>> THEN <<id>>
  ELSE IF CompareHitDice(w, Head(sorted), id, target) <= 0
       THEN <<Head(sorted)>> \o InsertSorted(w, Tail(sorted), id, target)
       ELSE <<id>> \o sorted

RECURSIVE SortClasses(_, _, _)
SortClasses(w, ids, target) ==
  IF ids = <<>> THEN <<>>
  ELSE InsertSorted(w, SortClasses(w, SubSeq(ids, 1, Len(ids) - 1), target),
                    ids[Len(ids)], target)

\* the classes a hitDice consumption draws on, in the order of actor.classes
HitDiceClasses(w) ==
  LET target == w.item.consume.target
      denom == IF target \notin {"smallest", "largest"} THEN target ELSE ""
  IN SelectSeq(w.classes, LAMBDA id : denom = "" \/ w.items[id].hitDice = denom)

RECURSIVE SumAvailable(_, _)
SumAvailable(w, ids) ==
  IF ids = <<>> THEN 0
  ELSE (w.items[Head(ids)].levels - w.items[Head(ids)].hitDiceUsed)
       + SumAvailable(w, Tail(ids))

\* Identify the consumed resource and its current quantity.
\* found = FALSE stands for resource === undefined.
ConsumedResource(w) ==
  LET consume == w.item.consume
      amount == Coalesce(consume.amount, 1)
      target == consume.target
      missing == [found |-> FALSE, quantity |-> 0, amount |-> amount]
  IN CASE consume.type = "attribute" ->
            IF target \in DOMAIN w.sys
            THEN [found |-> TRUE, quantity |-> w.sys[target], amount |-> amount]
            ELSE missing
       [] consume.type \in {"ammo", "material"} ->
            IF target \in DOMAIN w.items
            THEN [found |-> TRUE, quantity |-> w.items[target].quantity, amount |-> amount]
            ELSE missing
       [] consume.type = "hitDice" ->
            [found |-> TRUE, quantity |-> SumAvailable(w, HitDiceClasses(w)),
             amount |-> amount]
       [] consume.type = "charges" ->
            IF target \notin DOMAIN w.items THEN missing
            ELSE LET res == w.items[target]
                 IN IF res.uses.per # "" /\ NumberOf(res.uses.max) # 0
                    THEN [found |-> TRUE, quantity |-> res.uses.value, amount |-> amount]
                    ELSE IF NumberOf(res.recharge.value) # 0
                         THEN [found |-> TRUE,
                               quantity |-> IF res.recharge.charged = Some(TRUE) THEN 1 ELSE 0,
                               amount |-> 1]
                         ELSE [found |-> TRUE, quantity |-> 0, amount |-> amount]
       [] OTHER -> [found |-> TRUE, quantity |-> 0, amount |-> amount]

\* mutant: a class gives all that is still asked, not only what it has left
RECURSIVE ConsumeHitDiceUncapped(_, _, _, _)
ConsumeHitDiceUncapped(w, ids, toConsume, updates) ==
  IF ids = <<>> THEN updates
  ELSE LET cls == w.items[Head(ids)]
           delta == toConsume
           pushed == Append(updates,
                       [id |-> Head(ids),
                        changes |-> ("system.hitDiceUsed" :> (cls.hitDiceUsed + delta))])
       IN IF delta # 0 THEN pushed
          ELSE ConsumeHitDiceUncapped(w, Tail(ids), toConsume, updates)

\* the loop over the classes of a hitDice consumption
RECURSIVE ConsumeHitDice(_, _, _, _)
ConsumeHitDice(w, ids, toConsume, updates) ==
  IF ids = <<>> THEN updates
  ELSE LET cls == w.items[Head(ids)]
           available == (IF toConsume > 0 THEN cls.levels ELSE 0) - cls.hitDiceUsed
           delta == IF toConsume > 0 THEN Min(toConsume, available)
                                     ELSE Max(toConsume, available)
           pushed == Append(updates,
                       [id |-> Head(ids),
                        changes |-> ("system.hitDiceUsed" :> (cls.hitDiceUsed + delta))])
       IN IF delta # 0
          THEN IF toConsume - delta = 0 THEN pushed
               ELSE ConsumeHitDice(w, Tail(ids), toConsume - delta, pushed)
          ELSE ConsumeHitDice(w, Tail(ids), toConsume, updates)

\* let toConsume = consume.amount: the stored amount, null counting as 0 in
\* the comparisons and in Math.min / Math.max
HitDiceToConsume(w) == NumberOf(w.item.consume.amount)

\* Define updates to provided data objects
ResourceUpdates(st, remaining) ==
  LET w == st.world
      consume == w.item.consume
      target == consume.target
  IN CASE consume.type = "attribute" ->
            [st EXCEPT !.actorUpdates = Put(@, target, remaining)]
       [] consume.type \in {"ammo", "material"} ->
            [st EXCEPT !.resourceUpdates =
               Append(@, [id |-> target, changes |-> ("system.quantity" :> remaining)])]
       [] consume.type = "hitDice" ->
            LET resource == IF target \in {"smallest", "largest"}
                            THEN SortClasses(w, HitDiceClasses(w), target)
                            ELSE HitDiceClasses(w)
            IN [st EXCEPT !.resourceUpdates =
                  ConsumeHitDice(w, resource, HitDiceToConsume(w), @)]
       [] consume.type = "charges" ->
            LET res == w.items[target]
                update ==
                  IF res.uses.per # "" /\ NumberOf(res.uses.max) # 0
                  THEN ("system.uses.value" :> remaining)
                  ELSE IF NumberOf(res.recharge.value) # 0
                       THEN ("system.recharge.charged" :> FALSE)
                       ELSE EmptyObj
            IN [st EXCEPT !.resourceUpdates = Append(@, [id |-> target, changes |-> update])]
       [] OTHER -> st

\* mutant: the quantity check is dropped
_handleConsumeResourceUnchecked(st) ==
  LET w == st.world
      consume == w.item.consume
      r == ConsumedResource(w)
      remaining == r.quantity - r.amount
  IN IF consume.type = "" THEN st
     ELSE IF consume.target = "" THEN WarnAndFail(st, "DND5E.ConsumeWarningNoResource")
     ELSE IF ~r.found THEN WarnAndFail(st, "DND5E.ConsumeWarningNoSource")
     ELSE ResourceUpdates(st, remaining)

\* mutant: a target that is not there is taken as a resource holding 0
_handleConsumeResourceNoSourceCheck(st) ==
  LET w == st.world
      consume == w.item.consume
      r == ConsumedResource(w)
      remaining == r.quantity - r.amount
  IN IF consume.type = "" THEN st
     ELSE IF consume.target = "" THEN WarnAndFail(st, "DND5E.ConsumeWarningNoResource")
     ELSE IF remaining < 0 \/ ~r.found THEN WarnAndFail(st, "DND5E.ConsumeWarningNoQuantity")
     ELSE ResourceUpdates(st, remaining)

_handleConsumeResource(st) ==
  LET w == st.world
      consume == w.item.consume
      r == ConsumedResource(w)
      remaining == r.quantity - r.amount
  IN IF consume.type = "" THEN st
     ELSE IF consume.target = "" THEN WarnAndFail(st, "DND5E.ConsumeWarningNoResource")
     ELSE IF ~r.found THEN WarnAndFail(st, "DND5E.ConsumeWarningNoSource")
     ELSE IF remaining < 0 THEN WarnAndFail(st, "DND5E.ConsumeWarningNoQuantity")
     ELSE ResourceUpdates(st, remaining)

\* `spell${consumeSpellLevel}` for a number, the level itself for "pact"
SpellKey(level) ==
  IF level.tag = "pact" THEN "pact"
  ELSE CASE level.n = 1 -> "spell1"
         [] level.n = 2 -> "spell2"
         [] level.n = 3 -> "spell3"
         [] level.n = 4 -> "spell4"
         [] level.n = 5 -> "spell5"
         [] OTHER -> "spell0"

\* the path of a pool's value below "system."
SpellPath(key) ==
  CASE key = "pact" -> "spells.pact.value"
    [] key = "spell1" -> "spells.spell1.value"
    [] key = "spell2" -> "spells.spell2.value"
    [] key = "spell3" -> "spells.spell3.value"
    [] key = "spell4" -> "spells.spell4.value"
    [] key = "spell5" -> "spells.spell5.value"
    [] OTHER -> "spells.spell0.value"

\* mutant: the pool is chosen by the item's own level, as the warning's label is
SlotPoolFromItemLevel(w, cfg) ==
  IF cfg.consumeSpellLevel.tag = "pact" THEN SpellPath("pact")
  ELSE SpellPath(SpellKey(NumLevel(w.item.level)))

\* the pool a slot is taken from
SlotPool(w, cfg) == SpellPath(SpellKey(cfg.consumeSpellLevel))

\* Consume Spell Slots
ConsumeSpellSlot(st, cfg) ==
  IF ~(cfg.consumeSpellSlot /\ Truthy(cfg.consumeSpellLevel)) THEN st
  ELSE LET path == SlotPool(st.world, cfg)
           spells == IF path \in DOMAIN st.world.sys THEN st.world.sys[path] ELSE 0
       IN IF spells = 0 THEN WarnAndFail(st, "DND5E.SpellCastNoSlots")
          ELSE [st EXCEPT !.actorUpdates = Put(@, path, Max(spells - 1, 0))]

\* mutant: the uses counter is also written into the item's stored data
ConsumeUsageInPlace(st, cfg) ==
  IF ~cfg.consumeUsage THEN st
  ELSE LET available == st.world.item.uses.value
           remaining == Max(available - 1, 0)
       IN IF available >= 1
          THEN [st EXCEPT !.itemUpdates = Put(@, "system.uses.value", remaining),
                          !.world.item.uses.value = remaining]
          ELSE WarnAndFail(st, "DND5E.ItemNoUses")

\* mutant: the quantity fallback does not reset the uses counter
ConsumeUsageNoReset(st, cfg) ==
  IF ~cfg.consumeUsage THEN st
  ELSE LET uses == st.world.item.uses
           available == uses.value
           remaining == Max(available - 1, 0)
           usedUses == available >= 1
           st1 == IF usedUses
                  THEN [st EXCEPT !.itemUpdates = Put(@, "system.uses.value", remaining)]
                  ELSE st
           q == Coalesce(st.world.item.quantity, 1)
           usedQuantity == cfg.consumeQuantity /\ (~usedUses \/ remaining = 0) /\ q >= 1
           st2 == IF usedQuantity
                  THEN [st1 EXCEPT !.itemUpdates = Put(@, "system.quantity", Max(q - 1, 0))]
                  ELSE st1
       IN IF ~(usedUses \/ usedQuantity) THEN WarnAndFail(st, "DND5E.ItemNoUses")
          ELSE st2

\* mutant: a unit of quantity is taken only when no use could be taken
ConsumeUsageFallbackOnly(st, cfg) ==
  IF ~cfg.consumeUsage THEN st
  ELSE LET uses == st.world.item.uses
           q == Coalesce(st.world.item.quantity, 1)
       IN IF uses.value >= 1
          THEN [st EXCEPT !.itemUpdates = Put(@, "system.uses.value", uses.value - 1)]
          ELSE IF cfg.consumeQuantity /\ q >= 1
          THEN [st EXCEPT !.itemUpdates =
                  Put(Put(@, "system.quantity", Max(q - 1, 0)),
                      "system.uses.value", Coalesce(uses.max, 1))]
          ELSE WarnAndFail(st, "DND5E.ItemNoUses")

\* Consume Limited Usage
ConsumeUsage(st, cfg) ==
  IF ~cfg.consumeUsage THEN st
  ELSE LET uses == st.world.item.uses
           available == uses.value
           remaining == Max(available - 1, 0)
           usedUses == available >= 1
           st1 == IF usedUses
                  THEN [st EXCEPT !.itemUpdates = Put(@, "system.uses.value", remaining)]
                  ELSE st
           q == Coalesce(st.world.item.quantity, 1)
           usedQuantity == cfg.consumeQuantity /\ (~usedUses \/ remaining = 0) /\ q >= 1
           st2 == IF usedQuantity
                  THEN [st1 EXCEPT !.itemUpdates =
                          Put(Put(@, "system.quantity", Max(q - 1, 0)),
                              "system.uses.value", Coalesce(uses.max, 1))]
                  ELSE st1
       IN IF ~(usedUses \/ usedQuantity) THEN WarnAndFail(st, "DND5E.ItemNoUses")
          ELSE st2

\* what the caller gets: false, or the three buckets
ReturnUsage(st) ==
  IF st.ok
  THEN [returned |-> "updates", itemUpdates |-> st.itemUpdates,
        actorUpdates |-> st.actorUpdates, resourceUpdates |-> st.resourceUpdates,
        warnings |-> st.warnings, world |-> st.world]
  ELSE [returned |-> "false", itemUpdates |-> EmptyObj, actorUpdates |-> EmptyObj,
        resourceUpdates |-> <<>>, warnings |-> st.warnings, world |-> st.world]

\* mutant: the spell-slot step is taken ahead of the linked resource
_getUsageUpdatesSlotFirst(w, cfg) ==
  LET s1 == ConsumeRecharge(NewRun(w), cfg)
      s2 == IF s1.ok THEN ConsumeSpellSlot(s1, cfg) ELSE s1
      s3 == IF s2.ok /\ cfg.consumeResource THEN _handleConsumeResource(s2) ELSE s2
      s4 == IF s3.ok THEN ConsumeUsage(s3, cfg) ELSE s3
  IN ReturnUsage(s4)

_getUsageUpdates(w, cfg) ==
  LET s1 == ConsumeRecharge(NewRun(w), cfg)
      s2 == IF s1.ok /\ cfg.consumeResource THEN _handleConsumeResource(s1) ELSE s1
      s3 == IF s2.ok THEN ConsumeSpellSlot(s2, cfg) ELSE s2
      s4 == IF s3.ok THEN ConsumeUsage(s3, cfg) ELSE s3
  IN ReturnUsage(s4)

-----------------------------------------------------------------------------
(* The documents *)

NoUses == [value |-> 0, max |-> None, per |-> ""]
\* recharge.charged is a boolean, or unset (null / undefined)
Charged == {None, Some(TRUE), Some(FALSE)}
NoRecharge == [value |-> None, charged |-> Some(FALSE)]
NoConsume == [type |-> "", target |-> "", amount |-> None]

\* an item of the actor other than the one being used
Sibling(type, quantity, uses, recharge, hitDice, levels, hitDiceUsed) ==
  [type |-> type, quantity |-> quantity, uses |-> uses, recharge |-> recharge,
   hitDice |-> hitDice, levels |-> levels, hitDiceUsed |-> hitDiceUsed]

Physical(quantity) == Sibling("consumable", quantity, NoUses, NoRecharge, "", 0, 0)
Feature(uses, recharge) == Sibling("feat", 0, uses, recharge, "", 0, 0)
Class(hitDice, levels, hitDiceUsed) ==
  Sibling("class", 0, NoUses, NoRecharge, hitDice, levels, hitDiceUsed)

\* the item being used
UsedItem(type, actionType, level, mode, uses, autoDestroy, quantity, recharge, consume) ==
  [type |-> type, actionType |-> actionType, level |-> level, mode |-> mode,
   uses |-> uses, autoDestroy |-> autoDestroy, quantity |-> quantity,
   recharge |-> recharge, consume |-> consume, exists |-> TRUE]

\* actor.system, by path
ActorSystem(primary, spell1, spell2, pact) ==
  [path \in {"resources.primary.value", "spells.spell1.value", "spells.spell2.value",
             "spells.pact.value", "spells.pact.level"} |->
     CASE path = "resources.primary.value" -> primary
       [] path = "spells.spell1.value" -> spell1
       [] path = "spells.spell2.value" -> spell2
       [] path = "spells.pact.value" -> pact
       [] OTHER -> 1]

Amounts == {None} \cup {Some(n) : n \in -1..MaxAmount}

\* the ItemUseConfiguration fields _getUsageUpdates reads
UseConfig(cq, cr, res, slot, level, cu) ==
  [consumeQuantity |-> cq, consumeRecharge |-> cr,
   consumeResource |-> res, consumeSpellSlot |-> slot,
   consumeSpellLevel |-> level, consumeUsage |-> cu]

-----------------------------------------------------------------------------
(* SpecResolve: the bounded input space of _getUsageUpdates.  Two families: *)
(* the item's own resources in every combination with every configuration, *)
(* and every linked resource against an item whose own steps are fixed.    *)

ClassPairs ==
  {[items |-> ("cls1" :> Class(h1, l1, u1) @@ "cls2" :> Class("d8", l2, u2)),
    classes |-> order] :
     h1 \in {"d6", "d10"}, l1 \in 1..MaxLevels, l2 \in 1..MaxLevels,
     u1 \in 0..MaxLevels, u2 \in 0..MaxLevels,
     order \in {<<"cls1", "cls2">>}}

ValidClasses == {c \in ClassPairs : \A id \in DOMAIN c.items :
                   c.items[id].hitDiceUsed <= c.items[id].levels}

\* [consume, primary, items, classes]: a linked resource and what it points at
LinkedResources ==
  {[consume |-> [type |-> "attribute", target |-> "resources.primary.value", amount |-> a],
    primary |-> v, items |-> EmptyObj, classes |-> <<>>] :
     a \in Amounts, v \in 0..MaxUses}
  \cup
  {[consume |-> [type |-> t, target |-> "ammo1", amount |-> a],
    primary |-> 0, items |-> ("ammo1" :> Physical(q)), classes |-> <<>>] :
     t \in {"ammo", "material"}, a \in Amounts, q \in 0..MaxUses}
  \cup
  {[consume |-> [type |-> "charges", target |-> "wand1", amount |-> a],
    primary |-> 0, items |-> ("wand1" :> f), classes |-> <<>>] :
     a \in Amounts,
     f \in {Feature([value |-> v, max |-> Some(MaxUses), per |-> "charges"], NoRecharge) :
              v \in 0..MaxUses}
           \cup {Feature(NoUses, [value |-> Some(5), charged |-> c]) : c \in Charged}
           \cup {Feature(NoUses, NoRecharge)}}
  \cup
  {[consume |-> [type |-> "hitDice", target |-> t, amount |-> a],
    primary |-> 0, items |-> c.items, classes |-> c.classes] :
     t \in {"smallest", "largest", "d8", "d10", "d12"}, a \in Amounts, c \in ValidClasses}
  \cup
  \* no target configured, or a target that is not there
  {[consume |-> [type |-> t, target |-> g, amount |-> a],
    primary |-> 1, items |-> ("ammo1" :> Physical(1)), classes |-> <<>>] :
     t \in {"attribute", "ammo", "material", "charges", "hitDice"},
     g \in {"", "gone"}, a \in {None, Some(1)}}

LinkedInputs ==
  {[world |-> [item |-> UsedItem("feat", "", 0, "", [value |-> 1, max |-> Some(MaxUses), per |-> "day"],
                                 FALSE, Some(1), [value |-> Some(5), charged |-> Some(TRUE)],
                                 r.consume),
               sys |-> ActorSystem(r.primary, 0, 1, 0),
               items |-> r.items, classes |-> r.classes],
    config |-> UseConfig(FALSE, cr, res, slot, NumLevel(1), cu)] :
     r \in LinkedResources, cr \in BOOLEAN, res \in BOOLEAN,
     slot \in BOOLEAN, cu \in BOOLEAN}

SlotChoices ==
  {<<FALSE, NoLevel>>, <<FALSE, NumLevel(1)>>, <<TRUE, NoLevel>>, <<TRUE, NumLevel(0)>>,
   <<TRUE, NumLevel(1)>>, <<TRUE, NumLevel(2)>>, <<TRUE, NumLevel(3)>>, <<TRUE, PactLevel>>}

OwnInputs ==
  {[world |-> [item |-> UsedItem("feat", "", 0, "", [value |-> v, max |-> m, per |-> "day"],
                                 FALSE, q, [value |-> Some(5), charged |-> c], NoConsume),
               sys |-> ActorSystem(0, s1, 1, p),
               items |-> EmptyObj, classes |-> <<>>],
    config |-> UseConfig(cq, cr, TRUE, sl[1], sl[2], cu)] :
     v \in 0..MaxUses, m \in {None, Some(MaxUses)},
     q \in {None} \cup {Some(n) : n \in 0..MaxUses}, c \in Charged,
     s1 \in 0..MaxSlots, p \in 0..1,
     cq \in BOOLEAN, cr \in BOOLEAN, sl \in SlotChoices, cu \in BOOLEAN}

ResolveInputs == LinkedInputs \cup OwnInputs

NoUsage ==
  [returned |-> "none", itemUpdates |-> EmptyObj, actorUpdates |-> EmptyObj,
   resourceUpdates |-> <<>>, warnings |-> <<>>]

NoDamage == [phase |-> "off"]

NotDerived == [phase |-> "off"]

NothingGranted ==
  [slots |-> [pool \in {"spells.spell1.value", "spells.spell2.value"} |-> 0],
   uses |-> 0, refills |-> 0, material |-> 0]

InitResolve ==
  \E in \in ResolveInputs :
    /\ world = in.world
    /\ world0 = in.world
    /\ config = in.config
    /\ phase = "ready"
    /\ usage = NoUsage
    /\ procs = <<>>
    /\ calls = 0
    /\ granted = NothingGranted
    /\ dmg = NoDamage
  /\ derived = NotDerived
    /\ derived = NotDerived

\* item._getUsageUpdates(config): the returned value, the warnings, and the
\* documents as the call leaves them
GetUsageUpdates ==
  /\ phase = "ready"
  /\ LET r == _getUsageUpdates(world, config)
     IN /\ usage' = [returned |-> r.returned, itemUpdates |-> r.itemUpdates,
                     actorUpdates |-> r.actorUpdates,
                     resourceUpdates |-> r.resourceUpdates, warnings |-> r.warnings]
        /\ world' = r.world
  /\ phase' = "resolved"
  /\ UNCHANGED <<config, world0, procs, calls, granted, dmg, derived>>

NextResolve == GetUsageUpdates

SpecResolve == InitResolve /\ [][NextResolve]_vars

-----------------------------------------------------------------------------
(* use(): one record per caller.  A call runs from one await to the next   *)
(* without interruption; at an await (the configuration dialog, each       *)
(* document update, the deletion, the chat card) any other call may run.   *)
(* A document changes when its update completes, which is also when the    *)
(* awaiting call resumes.                                                  *)

Callers == {"a", "b"}

HasAttack(it) == it.actionType \in {"mwak", "rwak", "msak", "rsak"}

\* CONFIG.DND5E.spellUpcastModes
SpellUpcastModes == {"always", "pact", "prepared"}

RequireSpellSlot(it) ==
  it.type = "spell" /\ it.level > 0 /\ it.mode \in SpellUpcastModes

\* the follow-up actions an item asks for by default
DefaultConfig(it) ==
  [createMeasuredTemplate |-> FALSE,
   consumeQuantity |-> it.autoDestroy,
   consumeRecharge |-> NumberOf(it.recharge.value) # 0,
   consumeResource |-> it.consume.target # ""
                       /\ (~HasAttack(it) \/ it.consume.type # "ammo"),
   consumeSpellLevel |-> IF RequireSpellSlot(it)
                         THEN (IF it.mode = "pact" THEN PactLevel ELSE NumLevel(it.level))
                         ELSE NoLevel,
   consumeSpellSlot |-> RequireSpellSlot(it),
   consumeUsage |-> it.uses.per # "" /\ NumberOf(it.uses.max) > 0,
   needsConfiguration |-> FALSE]

\* foundry.utils.mergeObject(original, other) on flat objects
MergeObject(original, other) ==
  [k \in DOMAIN original |-> IF k \in DOMAIN other THEN other[k] ELSE original[k]]

\* config.needsConfiguration, when the caller left it undefined
NeedsConfiguration(cfg) ==
  [cfg EXCEPT !.needsConfiguration =
     cfg.createMeasuredTemplate \/ cfg.consumeRecharge \/ cfg.consumeResource
     \/ cfg.consumeSpellSlot \/ cfg.consumeUsage]

\* the level the item is cast at: the clone's system.level when upcast
CastLevel(w, cfg) ==
  IF w.item.type = "spell" /\ (cfg.consumeSpellSlot \/ Truthy(cfg.consumeSpellLevel))
  THEN LET upcastLevel == IF cfg.consumeSpellLevel.tag = "pact"
                          THEN w.sys["spells.pact.level"]
                          ELSE cfg.consumeSpellLevel.n
       IN IF upcastLevel # 0 /\ upcastLevel # w.item.level THEN upcastLevel
          ELSE w.item.level
  ELSE w.item.level

\* Hooks.call(name, ...) === false
VetoIgnored(result) == FALSE
Vetoed(result) == result = FALSE

IdleCall ==
  [pc |-> "idle", config |-> NeedsConfiguration(DefaultConfig(
                               UsedItem("", "", 0, "", NoUses, FALSE, None, NoRecharge, NoConsume))),
   usage |-> NoUsage, castLevel |-> 0, hooks |-> <<>>, dialog |-> "none",
   issued |-> {}, applied |-> {}, outcome |-> "none"]

\* return from use()
Finish(pr, outcome) == [pr EXCEPT !.pc = "idle", !.outcome = outcome]

\* the request a call waits on at each await of the commit
Request(pc) ==
  CASE pc = "itemUpdate" -> "item.update"
    [] pc = "itemDelete" -> "item.delete"
    [] pc = "actorUpdate" -> "actor.update"
    [] pc = "resourceUpdate" -> "actor.updateEmbeddedDocuments"
    [] OTHER -> "displayCard"

Await(pr, pc) == [pr EXCEPT !.pc = pc, !.issued = @ \cup {Request(pc)}]

\* Commit pending data updates: which statement of the commit awaits next
AfterActorUpdate(pr) ==
  IF pr.usage.resourceUpdates # <<>> THEN "resourceUpdate" ELSE "card"

AfterItemDelete(pr) ==
  IF ~IsEmpty(pr.usage.actorUpdates) THEN "actorUpdate" ELSE AfterActorUpdate(pr)

AfterItemUpdate(pr, w) ==
  IF pr.config.consumeQuantity /\ w.item.quantity = Some(0) THEN "itemDelete"
  ELSE AfterItemDelete(pr)

AfterResolution(pr, w) ==
  IF ~IsEmpty(pr.usage.itemUpdates) THEN "itemUpdate" ELSE AfterItemUpdate(pr, w)

\* item.update(itemUpdates) completed
ApplyItemUpdates(w, ups) ==
  [w EXCEPT
     !.item.recharge.charged =
        IF "system.recharge.charged" \in DOMAIN ups
        THEN Some(ups["system.recharge.charged"]) ELSE @,
     !.item.uses.value =
        IF "system.uses.value" \in DOMAIN ups THEN ups["system.uses.value"] ELSE @,
     !.item.quantity =
        IF "system.quantity" \in DOMAIN ups THEN Some(ups["system.quantity"]) ELSE @]

\* actor.update(actorUpdates) completed
ApplyActorUpdates(w, ups) ==
  [w EXCEPT !.sys = [path \in DOMAIN w.sys |->
                       IF path \in DOMAIN ups THEN ups[path] ELSE w.sys[path]]]

ApplyChanges(doc, changes) ==
  [doc EXCEPT
     !.quantity = IF "system.quantity" \in DOMAIN changes
                  THEN changes["system.quantity"] ELSE @,
     !.uses.value = IF "system.uses.value" \in DOMAIN changes
                    THEN changes["system.uses.value"] ELSE @,
     !.recharge.charged = IF "system.recharge.charged" \in DOMAIN changes
                          THEN Some(changes["system.recharge.charged"]) ELSE @,
     !.hitDiceUsed = IF "system.hitDiceUsed" \in DOMAIN changes
                     THEN changes["system.hitDiceUsed"] ELSE @]

\* actor.updateEmbeddedDocuments("Item", resourceUpdates) completed
RECURSIVE ApplyResourceUpdates(_, _)
ApplyResourceUpdates(w, updates) ==
  IF updates = <<>> THEN w
  ELSE ApplyResourceUpdates(
         [w EXCEPT !.items[Head(updates).id] = ApplyChanges(@, Head(updates).changes)],
         Tail(updates))

\* units the successful resolutions have taken so far, by resource: a slot of
\* each pool, a charge of the item (refills counts the resolutions that took
\* a unit of quantity and reset the charges), units of the linked resource
Granting(g, w, r) ==
  [slots |-> [pool \in DOMAIN g.slots |->
                g.slots[pool] + (IF pool \in DOMAIN r.actorUpdates THEN 1 ELSE 0)],
   uses |-> g.uses + (IF "system.uses.value" \in DOMAIN r.itemUpdates
                         /\ "system.quantity" \notin DOMAIN r.itemUpdates THEN 1 ELSE 0),
   refills |-> g.refills + (IF "system.quantity" \in DOMAIN r.itemUpdates THEN 1 ELSE 0),
   material |-> g.material + (IF r.resourceUpdates # <<>>
                              THEN Coalesce(w.item.consume.amount, 1) ELSE 0)]

\* the buckets and warnings of a resolution, as kept by the call
Buckets(r) == [k \in DOMAIN NoUsage |-> r[k]]

\* use() after _getUsageUpdates returned r: "if ( !usage ) return", the
\* dnd5e.itemUsageConsumption hook, and the first await of the commit
AfterUsage(pr, w, g, r, hook) ==
  IF r.returned = "false"
  THEN [proc |-> Finish([pr EXCEPT !.usage = Buckets(r)], "unusable"),
        world |-> r.world, granted |-> g]
  ELSE IF Vetoed(hook)
  THEN [proc |-> Finish([pr EXCEPT !.usage = Buckets(r), !.hooks = Append(@, hook)],
                        "vetoed"),
        world |-> r.world, granted |-> g]
  ELSE [proc |-> Await([pr EXCEPT !.usage = Buckets(r), !.hooks = Append(@, hook)],
                       AfterResolution([pr EXCEPT !.usage = Buckets(r)], r.world)),
        world |-> r.world, granted |-> Granting(g, w, r)]

\* use(), from "Handle spell upcasting" to the first await of the commit:
\* the call's record, the documents and the history as the segment leaves them
Consumption(pr, w, g, cfg, veto) ==
  IF Vetoed(veto # "dnd5e.preItemUsageConsumption")
  THEN [proc |-> Finish([pr EXCEPT !.config = cfg, !.castLevel = CastLevel(w, cfg),
                                   !.hooks = Append(@, FALSE)], "vetoed"),
        world |-> w, granted |-> g]
  ELSE AfterUsage([pr EXCEPT !.config = cfg, !.castLevel = CastLevel(w, cfg),
                             !.hooks = Append(@, veto # "dnd5e.preItemUsageConsumption")],
                  w, g, _getUsageUpdates(w, cfg), veto # "dnd5e.itemUsageConsumption")

\* the segment's outcome becomes the next state
Continue(p, out) ==
  /\ procs' = [procs EXCEPT ![p] = out.proc]
  /\ world' = out.world
  /\ granted' = out.granted

\* what the caller of use() passes as config
CallerConfigs ==
  {EmptyObj, ("consumeUsage" :> FALSE), ("consumeQuantity" :> TRUE)}

\* what AbilityUseDialog.create resolves to: null, or the submitted form
DialogResults(it) ==
  {None, Some(EmptyObj)}
  \cup (IF it.type = "spell" THEN {Some(("consumeSpellLevel" :> NumLevel(2)))} ELSE {})

Hooks == {"dnd5e.preUseItem", "dnd5e.preItemUsageConsumption", "dnd5e.itemUsageConsumption"}

\* use(config, options) up to the dialog, and on to the commit when no dialog is shown
UseStart(p) ==
  /\ procs[p].pc = "idle"
  /\ calls < MaxCalls
  /\ world.item.exists
  /\ calls' = calls + 1
  /\ \E callerConfig \in CallerConfigs, configureDialog \in BOOLEAN,
        veto \in Hooks \cup {"none"} :
       LET cfg == NeedsConfiguration(MergeObject(DefaultConfig(world.item), callerConfig))
           pr == [IdleCall EXCEPT !.config = cfg,
                                  !.hooks = <<veto # "dnd5e.preUseItem">>]
       IN IF Vetoed(veto # "dnd5e.preUseItem")
          THEN /\ procs' = [procs EXCEPT ![p] = Finish(pr, "vetoed")]
               /\ UNCHANGED <<world, granted>>
          ELSE IF configureDialog /\ cfg.needsConfiguration
          THEN /\ procs' = [procs EXCEPT ![p] = [pr EXCEPT !.pc = "dialog"]]
               /\ UNCHANGED <<world, granted>>
          ELSE Continue(p, Consumption([pr EXCEPT !.dialog = "skipped"],
                                       world, granted, cfg, veto))
  /\ UNCHANGED <<phase, config, usage, world0, dmg, derived>>

\* await AbilityUseDialog.create(item) resolved
DialogReturn(p) ==
  /\ procs[p].pc = "dialog"
  /\ \E configuration \in DialogResults(world.item),
        veto \in {"none", "dnd5e.preItemUsageConsumption", "dnd5e.itemUsageConsumption"} :
       IF IsNull(configuration)
       THEN /\ procs' = [procs EXCEPT ![p] = Finish([@ EXCEPT !.dialog = "cancelled"], "cancelled")]
            /\ UNCHANGED <<world, granted>>
       ELSE Continue(p, Consumption([procs[p] EXCEPT !.dialog = "configured"],
                                    world, granted,
                                    MergeObject(procs[p].config, Val(configuration)), veto))
  /\ UNCHANGED <<phase, config, usage, world0, calls, dmg, derived>>

\* await item.update(itemUpdates) resolved (or rejected: the item is gone)
ItemUpdateDone(p) ==
  /\ procs[p].pc = "itemUpdate"
  /\ IF world.item.exists
     THEN LET w == ApplyItemUpdates(world, procs[p].usage.itemUpdates)
              pr == [procs[p] EXCEPT !.applied = @ \cup {"item.update"}]
          IN /\ world' = w
             /\ procs' = [procs EXCEPT ![p] = Await(pr, AfterItemUpdate(pr, w))]
     ELSE /\ procs' = [procs EXCEPT ![p] = Finish(@, "rejected")]
          /\ UNCHANGED world
  /\ UNCHANGED <<phase, config, usage, world0, calls, granted, dmg, derived>>

\* await item.delete() resolved (or rejected: the item is gone)
ItemDeleteDone(p) ==
  /\ procs[p].pc = "itemDelete"
  /\ IF world.item.exists
     THEN LET pr == [procs[p] EXCEPT !.applied = @ \cup {"item.delete"}]
          IN /\ world' = [world EXCEPT !.item.exists = FALSE]
             /\ procs' = [procs EXCEPT ![p] = Await(pr, AfterItemDelete(pr))]
     ELSE /\ procs' = [procs EXCEPT ![p] = Finish(@, "rejected")]
          /\ UNCHANGED world
  /\ UNCHANGED <<phase, config, usage, world0, calls, granted, dmg, derived>>

\* await this.actor.update(actorUpdates) resolved
ActorUpdateDone(p) ==
  /\ procs[p].pc = "actorUpdate"
  /\ LET pr == [procs[p] EXCEPT !.applied = @ \cup {"actor.update"}]
     IN /\ world' = ApplyActorUpdates(world, procs[p].usage.actorUpdates)
        /\ procs' = [procs EXCEPT ![p] = Await(pr, AfterActorUpdate(pr))]
  /\ UNCHANGED <<phase, config, usage, world0, calls, granted, dmg, derived>>

\* await this.actor.updateEmbeddedDocuments("Item", resourceUpdates) resolved
ResourceUpdateDone(p) ==
  /\ procs[p].pc = "resourceUpdate"
  /\ LET pr == [procs[p] EXCEPT !.applied = @ \cup {"actor.updateEmbeddedDocuments"}]
     IN /\ world' = ApplyResourceUpdates(world, procs[p].usage.resourceUpdates)
        /\ procs' = [procs EXCEPT ![p] = Await(pr, "card")]
  /\ UNCHANGED <<phase, config, usage, world0, calls, granted, dmg, derived>>

\* await item.displayCard(options) resolved; Hooks.callAll("dnd5e.useItem"); return cardData
CardDone(p) ==
  /\ procs[p].pc = "card"
  /\ procs' = [procs EXCEPT ![p] =
                 Finish([@ EXCEPT !.applied = @ \cup {"displayCard"},
                                  !.issued = @ \cup {"dnd5e.useItem"}], "used")]
  /\ UNCHANGED <<world, phase, config, usage, world0, calls, granted, dmg, derived>>

\* the items used in Spec: a prepared level-1 spell with limited uses and a
\* material component, a consumable with charges, a feature with a recharge
UseWorlds ==
  {[item |-> UsedItem("spell", "", 1, "prepared",
                      [value |-> u, max |-> Some(MaxUses), per |-> "day"], FALSE, None,
                      NoRecharge, [type |-> "material", target |-> "mat1", amount |-> Some(1)]),
    sys |-> ActorSystem(0, s, 1, 0),
    items |-> ("mat1" :> Physical(m)), classes |-> <<>>] :
     u \in 1..MaxUses, s \in 1..MaxSlots, m \in 1..MaxUses}
  \cup
  {[item |-> UsedItem("consumable", "", 0, "",
                      [value |-> u, max |-> Some(MaxUses), per |-> "charges"], ad, Some(q),
                      NoRecharge, NoConsume),
    sys |-> ActorSystem(0, 0, 0, 0),
    items |-> EmptyObj, classes |-> <<>>] :
     u \in 0..MaxUses, ad \in BOOLEAN, q \in 0..MaxUses}
  \cup
  {[item |-> UsedItem("feat", "", 0, "", NoUses, FALSE, Some(1),
                      [value |-> Some(5), charged |-> Some(c)], NoConsume),
    sys |-> ActorSystem(0, 0, 0, 0),
    items |-> EmptyObj, classes |-> <<>>] :
     c \in BOOLEAN}

Init ==
  /\ world \in UseWorlds
  /\ world0 = world
  /\ procs = [p \in Callers |-> IdleCall]
  /\ calls = 0
  /\ granted = NothingGranted
  /\ phase = "off"
  /\ config = IdleCall.config
  /\ usage = NoUsage
  /\ dmg = NoDamage
  /\ derived = NotDerived

Next ==
  \E p \in Callers :
    \/ UseStart(p)
    \/ DialogReturn(p)
    \/ ItemUpdateDone(p)
    \/ ItemDeleteDone(p)
    \/ ActorUpdateDone(p)
    \/ ResourceUpdateDone(p)
    \/ CardDone(p)

Spec == Init /\ [][Next]_vars

-----------------------------------------------------------------------------
(* Damage scaling.  A formula is the sequence of the terms the Roll parser *)
(* splits its string into, the terms being joined by " + ": a die term     *)
(* (number, faces, modifiers) or a numeric term.  The empty sequence is    *)
(* the empty string.                                                       *)

Die(number, faces, modifiers) ==
  [kind |-> "Die", number |-> number, faces |-> faces, modifiers |-> modifiers]

NumericTerm(number) ==
  [kind |-> "NumericTerm", number |-> number, faces |-> 0, modifiers |-> <<>>]

\* new Roll(formula).alter(times): the number of every dice term is multiplied,
\* numeric terms are left as they are
Alter(terms, times) ==
  [i \in 1..Len(terms) |->
     IF terms[i].kind = "Die" THEN [terms[i] EXCEPT !.number = @ * times] ELSE terms[i]]

\* parts.join(" + ")
RECURSIVE Join(_)
Join(parts) == IF parts = <<>> THEN <<>> ELSE Head(parts) \o Join(Tail(parts))

\* what a scaling call leaves: the parts array (altered in place), the value
\* it returned, and how many times the scaling formula was added to parts[0]
Scaled(parts, returned, times) == [parts |-> parts, returned |-> returned, scaled |-> times]

\* mutant: like dice are combined only when the first part is one die term
_scaleDamageWholePart(parts, scaling, times) ==
  IF times <= 0 THEN Scaled(parts, parts, 0)
  ELSE LET p0 == parts[1]
           s == Alter(scaling, times)
           simplified == /\ Len(s) = 1 /\ s[1].kind = "Die"
                         /\ Len(p0) = 1 /\ p0[1].kind = "Die"
                         /\ p0[1].faces = s[1].faces
                         /\ p0[1].modifiers = s[1].modifiers
           scaled == IF simplified
                     THEN [parts EXCEPT ![1] = [p0 EXCEPT ![1].number = @ + s[1].number]]
                     ELSE [parts EXCEPT ![1] = p0 \o s]
       IN Scaled(scaled, scaled, times)

_scaleDamage(parts, scaling, times) ==
  IF times <= 0 THEN Scaled(parts, parts, 0)
  ELSE LET p0 == parts[1]
           s == Alter(scaling, times)
           simplified == /\ Len(s) = 1 /\ s[1].kind = "Die"
                         /\ p0 # <<>> /\ p0[1].kind = "Die"
                         /\ p0[1].faces = s[1].faces
                         /\ p0[1].modifiers = s[1].modifiers
           scaled == IF simplified
                     THEN [parts EXCEPT ![1] = [p0 EXCEPT ![1].number = @ + s[1].number]]
                     ELSE [parts EXCEPT ![1] = p0 \o s]
       IN Scaled(scaled, scaled, times)

\* add computed one level late: the steps fall at levels 6, 12 and 18
_scaleCantripDamageLate(parts, scale, level) ==
  LET add == level \div 6
  IN IF add = 0 THEN Scaled(parts, <<>>, 0)
     ELSE _scaleDamage(parts, IF scale # <<>> THEN scale ELSE Join(parts), add)

_scaleCantripDamage(parts, scale, level) ==
  LET add == (level + 1) \div 6
  IN IF add = 0 THEN Scaled(parts, <<>>, 0)
     ELSE _scaleDamage(parts, IF scale # <<>> THEN scale ELSE Join(parts), add)

\* the cast level itself taken as the number of upcast levels
_scaleSpellDamageFromZero(parts, baseLevel, spellLevel, formula) ==
  IF spellLevel = 0 THEN Scaled(parts, parts, 0)
  ELSE _scaleDamage(parts, formula, spellLevel)

_scaleSpellDamage(parts, baseLevel, spellLevel, formula) ==
  LET upcastLevels == Max(spellLevel - baseLevel, 0)
  IN IF upcastLevels = 0 THEN Scaled(parts, parts, 0)
     ELSE _scaleDamage(parts, formula, upcastLevels)

\* Math.ceil(cr), the challenge rating being held in eighths
Ceil(cr) == (cr + 7) \div 8

\* the caster level a cantrip scales with
CantripLevel(item, actor) ==
  IF actor.type = "character" THEN actor.level
  ELSE IF item.mode = "innate" THEN Ceil(actor.cr)
  ELSE actor.spellLevel

\* rollDamage, "Scale damage from up-casting spells": the branch taken and
\* what it leaves of parts (the value a scaling call returns is dropped)
ScaleDamageParts(item, actor, spellLevel, parts) ==
  IF item.type # "spell" THEN [branch |-> "none"] @@ Scaled(parts, <<>>, 0)
  ELSE IF item.scaling.mode = "cantrip"
  THEN [branch |-> "cantrip"]
       @@ _scaleCantripDamage(parts, item.scaling.formula, CantripLevel(item, actor))
  ELSE IF NumberOf(spellLevel) # 0 /\ item.scaling.mode = "level" /\ item.scaling.formula # <<>>
  THEN [branch |-> "level"]
       @@ _scaleSpellDamage(parts, item.level, Val(spellLevel), item.scaling.formula)
  ELSE [branch |-> "none"] @@ Scaled(parts, <<>>, 0)

\* system.damage.parts, with or without the versatile formula in parts[0]
DamageFormulas ==
  {<<Die(n, 8, <<>>)>> : n \in 1..MaxDice}
  \cup {<<Die(1, 6, <<>>), NumericTerm(2)>>, <<NumericTerm(3), Die(1, 8, <<>>)>>,
        <<Die(1, 8, <<"r1">>)>>}

DamageParts ==
  {<<f>> : f \in DamageFormulas} \cup {<<f, <<NumericTerm(1)>>>> : f \in DamageFormulas}

\* system.scaling.formula
ScalingFormulas ==
  {<<>>, <<Die(1, 8, <<>>)>>, <<Die(1, 6, <<>>)>>, <<Die(1, 8, <<"r1">>)>>,
   <<Die(1, 8, <<>>), NumericTerm(1)>>}

\* actor.type and actor.system.details
ChallengeRatings == {0, 1, 2, 4} \cup {8 * k : k \in {1, 5, 11, MaxLevel}}

ScalingActors ==
  {[type |-> "character", level |-> l, cr |-> 0, spellLevel |-> 0] : l \in 0..MaxLevel}
  \cup {[type |-> "npc", level |-> 0, cr |-> c, spellLevel |-> l] :
          c \in ChallengeRatings, l \in {0, 4, 5, MaxLevel}}

ScalingItem(type, level, mode, scalingMode, formula) ==
  [type |-> type, level |-> level, mode |-> mode,
   scaling |-> [mode |-> scalingMode, formula |-> formula]]

\* rollDamage({spellLevel})
SpellLevels == {None} \cup {Some(l) : l \in 0..MaxSpellLevel}

ScalingInputs ==
  {[item |-> ScalingItem("spell", 0, mode, "cantrip", f), actor |-> a,
    spellLevel |-> None, parts |-> ps] :
     mode \in {"prepared", "innate"}, f \in ScalingFormulas, a \in ScalingActors,
     ps \in DamageParts}
  \cup
  {[item |-> ScalingItem("spell", b, "prepared", m, f),
    actor |-> [type |-> "character", level |-> 1, cr |-> 0, spellLevel |-> 0],
    spellLevel |-> c, parts |-> ps] :
     b \in 0..MaxSpellLevel, m \in {"level", "none"}, f \in ScalingFormulas,
     c \in SpellLevels, ps \in DamageParts}
  \cup
  {[item |-> ScalingItem("weapon", 0, "", m, <<Die(1, 8, <<>>)>>),
    actor |-> [type |-> "character", level |-> MaxLevel, cr |-> 0, spellLevel |-> 0],
    spellLevel |-> c, parts |-> ps] :
     m \in {"", "level", "cantrip"}, c \in SpellLevels, ps \in DamageParts}

InitScale ==
  /\ \E in \in ScalingInputs : dmg = [phase |-> "ready"] @@ in
  /\ world \in {w \in UseWorlds : w.item.type = "feat" /\ w.item.recharge.charged = Some(TRUE)}
  /\ world0 = world
  /\ phase = "off"
  /\ config = IdleCall.config
  /\ usage = NoUsage
  /\ procs = <<>>
  /\ calls = 0
  /\ granted = NothingGranted
  /\ derived = NotDerived

\* rollDamage's scaling block on the inputs
RollDamageScaling ==
  /\ dmg.phase = "ready"
  /\ dmg' = [phase |-> "scaled", parts0 |-> dmg.parts]
            @@ ScaleDamageParts(dmg.item, dmg.actor, dmg.spellLevel, dmg.parts)
            @@ dmg
  /\ UNCHANGED <<world, phase, config, usage, world0, procs, calls, granted, derived>>

NextScale == RollDamageScaling

SpecScale == InitScale /\ [][NextScale]_vars

-----------------------------------------------------------------------------
(* Derived data: getCriticalThreshold and _prepareAdvancement *)

\* the smallest of a non-empty set of numbers
MinOf(S) == CHOOSE x \in S : \A y \in S : x <= y

\* actorFlags.weaponCriticalThreshold / spellCriticalThreshold by item type,
\* null for the other types
ActorThreshold(item, flags) ==
  IF item.type = "weapon" THEN flags.weaponCriticalThreshold
  ELSE IF item.type = "spell" THEN flags.spellCriticalThreshold
  ELSE None

\* the threshold of the ammunition item, Infinity (no candidate) when the item
\* consumes no ammunition, the ammunition is gone or it has no threshold
AmmoThreshold(item, items) ==
  IF item.consume.type = "ammo" /\ item.consume.target \in DOMAIN items
  THEN items[item.consume.target].threshold
  ELSE None

\* mutant: the ammunition is not looked at
getCriticalThresholdNoAmmo(item, flags, items) ==
  IF ~HasAttack(item) THEN None
  ELSE Some(MinOf(item.threshold \cup {Coalesce(ActorThreshold(item, flags), 20)}))

\* Math.min(itemThreshold, ammoThreshold, actorThreshold ?? 20): an unset
\* threshold is Infinity, which never is the minimum; null without an attack
getCriticalThreshold(item, flags, items) ==
  IF ~HasAttack(item) THEN None
  ELSE Some(MinOf(item.threshold \cup AmmoThreshold(item, items)
                  \cup {Coalesce(ActorThreshold(item, flags), 20)}))

\* system.critical.threshold, a flag of the actor: unset, or a number up to 20
Thresholds == {None} \cup {Some(t) : t \in (20 - MaxReduction)..20}

CriticalInputs ==
  {[fn |-> "getCriticalThreshold",
    item |-> [type |-> type, actionType |-> actionType, threshold |-> t, consume |-> c],
    flags |-> [weaponCriticalThreshold |-> wf, spellCriticalThreshold |-> sf],
    items |-> ammo] :
     type \in {"weapon", "spell", "feat"}, actionType \in {"mwak", "rsak", "util"},
     t \in Thresholds, wf \in Thresholds, sf \in Thresholds,
     c \in {NoConsume, [type |-> "ammo", target |-> "ammo1", amount |-> Some(1)],
            [type |-> "material", target |-> "ammo1", amount |-> Some(1)]},
     ammo \in {EmptyObj} \cup {("ammo1" :> [threshold |-> at]) : at \in Thresholds}}

\* item.getCriticalThreshold()
GetCriticalThreshold ==
  /\ derived.phase = "ready" /\ derived.fn = "getCriticalThreshold"
  /\ derived' = [phase |-> "done",
                 result |-> getCriticalThreshold(derived.item, derived.flags, derived.items)]
                @@ derived
  /\ UNCHANGED <<world, phase, config, usage, world0, procs, calls, granted, dmg>>

\* the keys of advancement.byLevel: minAdvancementLevel..CONFIG.DND5E.maxLevel
AdvancementLevels(item) ==
  (IF item.type \in {"class", "subclass"} THEN 1 ELSE 0)..MaxLevel

\* this.advancement as the constructor literal leaves it; threw records the
\* TypeError of byLevel[l].push for a level that is no key of byLevel
NewAdvancement(item) ==
  [byId |-> EmptyObj, byLevel |-> [l \in AdvancementLevels(item) |-> <<>>],
   byType |-> EmptyObj, needingConfiguration |-> <<>>, threw |-> FALSE]

\* advancement.levels.forEach(l => this.advancement.byLevel[l].push(advancement))
RECURSIVE PushLevels(_, _, _)
PushLevels(acc, advancement, levels) ==
  IF levels = <<>> THEN acc
  ELSE IF Head(levels) \notin DOMAIN acc.byLevel THEN [acc EXCEPT !.threw = TRUE]
  ELSE PushLevels([acc EXCEPT !.byLevel[Head(levels)] = Append(@, advancement)],
                  advancement, Tail(levels))

\* mutant: an advancement is filed under the first of its levels only
AddAdvancementFirstLevel(acc, advancement) ==
  IF ~advancement.valid THEN acc
  ELSE LET byType == IF advancement.type \in DOMAIN acc.byType
                     THEN acc.byType[advancement.type] ELSE <<>>
           a1 == [acc EXCEPT !.byId = Put(@, advancement.id, advancement),
                             !.byType = Put(@, advancement.type, Append(byType, advancement))]
           a2 == PushLevels(a1, advancement,
                            IF advancement.levels = <<>> THEN <<>>
                            ELSE <<Head(advancement.levels)>>)
       IN IF a2.threw \/ advancement.levels # <<>> THEN a2
          ELSE [a2 EXCEPT !.needingConfiguration = Append(@, advancement)]

\* the body of the loop over this.system.advancement
AddAdvancement(acc, advancement) ==
  IF ~advancement.valid THEN acc
  ELSE LET byType == IF advancement.type \in DOMAIN acc.byType
                     THEN acc.byType[advancement.type] ELSE <<>>
           a1 == [acc EXCEPT !.byId = Put(@, advancement.id, advancement),
                             !.byType = Put(@, advancement.type, Append(byType, advancement))]
           a2 == PushLevels(a1, advancement, advancement.levels)
       IN IF a2.threw \/ advancement.levels # <<>> THEN a2
          ELSE [a2 EXCEPT !.needingConfiguration = Append(@, advancement)]

RECURSIVE AddAdvancements(_, _)
AddAdvancements(acc, advancements) ==
  IF advancements = <<>> \/ acc.threw THEN acc
  ELSE AddAdvancements(AddAdvancement(acc, Head(advancements)), Tail(advancements))

\* data.sort by sortingValueForLevel: stable, by the order of the advancement type
RECURSIVE InsertByValue(_, _)
InsertByValue(sorted, advancement) ==
  IF sorted = <<>> THEN <<advancement>>
  ELSE IF Head(sorted).order <= advancement.order
       THEN <<Head(sorted)>> \o InsertByValue(Tail(sorted), advancement)
       ELSE <<advancement>> \o sorted

RECURSIVE SortByValue(_)
SortByValue(data) ==
  IF data = <<>> THEN <<>>
  ELSE InsertByValue(SortByValue(SubSeq(data, 1, Len(data) - 1)), data[Len(data)])

_prepareAdvancement(item) ==
  LET acc == AddAdvancements(NewAdvancement(item), item.advancement)
  IN IF acc.threw THEN acc
     ELSE [acc EXCEPT !.byLevel = [l \in DOMAIN acc.byLevel |-> SortByValue(acc.byLevel[l])]]

\* advancement.levels of the entries of system.advancement
LevelArrays ==
  {<<>>, <<0>>, <<1>>, <<3>>, <<5>>, <<3, 5>>, <<1, 3, 5>>, <<MaxLevel>>, <<1, MaxLevel>>,
   <<MaxLevel + 1>>}

\* an entry of system.advancement; valid: it is an instance of Advancement
AdvancementEntries(id) ==
  {[id |-> id, valid |-> v, type |-> t[1], order |-> t[2], levels |-> ls] :
     v \in BOOLEAN, t \in {<<"ItemGrant", 40>>, <<"ScaleValue", 60>>}, ls \in LevelArrays}

AdvancementInputs ==
  {[fn |-> "_prepareAdvancement", item |-> [type |-> type, advancement |-> advs]] :
     type \in {"class", "feat"},
     advs \in {<<>>} \cup {<<a>> : a \in AdvancementEntries("adv1")}
              \cup {<<a, b>> : a \in AdvancementEntries("adv1"),
                               b \in AdvancementEntries("adv2")}}

\* item._prepareAdvancement()
PrepareAdvancement ==
  /\ derived.phase = "ready" /\ derived.fn = "_prepareAdvancement"
  /\ derived' = [phase |-> "done", result |-> _prepareAdvancement(derived.item)] @@ derived
  /\ UNCHANGED <<world, phase, config, usage, world0, procs, calls, granted, dmg>>

\* spellcasting || "int"
SpellcastingOrInt(actor) == IF actor.spellcasting # "" THEN actor.spellcasting ELSE "int"

\* the table of line 58-63, read at this.system.actionType
AttackAbility(item, actor) ==
  CASE item.actionType = "mwak" -> "str"
    [] item.actionType = "rwak" -> "dex"
    [] OTHER -> SpellcastingOrInt(actor)

\* mutant: a tool uses the spellcasting ability as a spell does
abilityModToolAsSpell(item, owner) ==
  IF item.ability # "" THEN Some(item.ability)
  ELSE IF owner # None /\ Val(owner).hasAbilities
  THEN LET actor == Val(owner)
       IN CASE item.type = "consumable" /\ item.consumableType = "scroll" ->
                 Some(SpellcastingOrInt(actor))
            [] item.type = "spell" -> Some(SpellcastingOrInt(actor))
            [] item.type = "tool" -> Some(SpellcastingOrInt(actor))
            [] item.type = "weapon" /\ item.fin ->
                 Some(IF actor.dex >= actor.str THEN "dex" ELSE "str")
            [] item.type = "weapon" /\ item.weaponType \in {"simpleR", "martialR"} ->
                 Some("dex")
            [] OTHER -> IF HasAttack(item) THEN Some(AttackAbility(item, actor)) ELSE None
  ELSE None

\* get abilityMod(): owner is this.actor (None for an unowned item),
\* hasAbilities is "abilities" in this.actor.system, dex and str the modifiers
abilityMod(item, owner) ==
  IF item.ability # "" THEN Some(item.ability)
  ELSE IF owner # None /\ Val(owner).hasAbilities
  THEN LET actor == Val(owner)
       IN CASE item.type = "consumable" /\ item.consumableType = "scroll" ->
                 Some(SpellcastingOrInt(actor))
            [] item.type = "spell" -> Some(SpellcastingOrInt(actor))
            [] item.type = "tool" -> Some("int")
            [] item.type = "weapon" /\ item.fin ->
                 Some(IF actor.dex >= actor.str THEN "dex" ELSE "str")
            [] item.type = "weapon" /\ item.weaponType \in {"simpleR", "martialR"} ->
                 Some("dex")
            [] OTHER -> IF HasAttack(item) THEN Some(AttackAbility(item, actor)) ELSE None
  ELSE None

\* the kinds of item abilityMod tells apart
AbilityItemKinds ==
  {[type |-> "spell", consumableType |-> "", fin |-> FALSE, weaponType |-> ""],
   [type |-> "tool", consumableType |-> "", fin |-> FALSE, weaponType |-> ""],
   [type |-> "feat", consumableType |-> "", fin |-> FALSE, weaponType |-> ""]}
  \cup {[type |-> "consumable", consumableType |-> c, fin |-> FALSE, weaponType |-> ""] :
          c \in {"scroll", "potion"}}
  \cup {[type |-> "weapon", consumableType |-> "", fin |-> f, weaponType |-> wt] :
          f \in BOOLEAN, wt \in {"simpleM", "martialR"}}

\* the owning actors: none, one without abilities, and characters
AbilityOwners ==
  {None, Some([hasAbilities |-> FALSE, spellcasting |-> "", dex |-> 0, str |-> 0])}
  \cup {Some([hasAbilities |-> TRUE, spellcasting |-> sc, dex |-> m[1], str |-> m[2]]) :
          sc \in {"", "wis"}, m \in {<<0, 0>>, <<1, 0>>, <<0, 1>>}}

AbilityInputs ==
  {[fn |-> "abilityMod",
    item |-> [ability |-> ab, actionType |-> at] @@ k,
    owner |-> o] :
     ab \in {"", "cha"}, at \in {"", "mwak", "rwak", "msak", "rsak", "save"},
     k \in AbilityItemKinds, o \in AbilityOwners}

\* item.abilityMod
AbilityMod ==
  /\ derived.phase = "ready" /\ derived.fn = "abilityMod"
  /\ derived' = [phase |-> "done", result |-> abilityMod(derived.item, derived.owner)]
                @@ derived
  /\ UNCHANGED <<world, phase, config, usage, world0, procs, calls, granted, dmg>>

\* get hasSave(): !!(save.ability && save.scaling)
hasSave(item) == item.save.ability # "" /\ item.save.scaling # ""

\* mutant: an ability-scaled save reads the DC of the save's own ability
getSaveDCOfSaveAbility(item, owner) ==
  IF ~hasSave(item) THEN [result |-> None, dc |-> item.save.dc]
  ELSE LET save == item.save
           dc == IF save.scaling = "spell"
                 THEN IF owner # None THEN Some(Val(owner).spelldc) ELSE None
                 ELSE IF save.scaling # "flat"
                 THEN IF owner # None THEN Some(Val(owner).abilities[save.ability]) ELSE None
                 ELSE save.dc
       IN [result |-> dc, dc |-> dc]

\* getSaveDC(): result is the value returned, dc is system.save.dc after the
\* call; abilities[a] stands for actor.system.abilities[a].dc
getSaveDC(item, owner) ==
  IF ~hasSave(item) THEN [result |-> None, dc |-> item.save.dc]
  ELSE LET save == item.save
           dc == IF save.scaling = "spell"
                 THEN IF owner # None THEN Some(Val(owner).spelldc) ELSE None
                 ELSE IF save.scaling # "flat"
                 THEN IF owner # None THEN Some(Val(owner).abilities[save.scaling]) ELSE None
                 ELSE save.dc
       IN [result |-> dc, dc |-> dc]

\* the actors a save DC is read from
SaveOwners ==
  {None} \cup {Some([spelldc |-> sd, abilities |-> ("dex" :> d @@ "con" :> c)]) :
                 sd \in {12, 13}, d \in {11, 14}, c \in {10, 15}}

SaveInputs ==
  {[fn |-> "getSaveDC",
    item |-> [save |-> [ability |-> ab, scaling |-> sc, dc |-> dc]],
    owner |-> o] :
     ab \in {"", "dex"}, sc \in {"", "spell", "flat", "dex", "con"},
     dc \in {None, Some(8), Some(16)}, o \in SaveOwners}

\* item.getSaveDC()
GetSaveDC ==
  /\ derived.phase = "ready" /\ derived.fn = "getSaveDC"
  /\ LET r == getSaveDC(derived.item, derived.owner)
     IN derived' = [phase |-> "done", result |-> r.result,
                    item |-> [derived.item EXCEPT !.save.dc = r.dc],
                    item0 |-> derived.item] @@ derived
  /\ UNCHANGED <<world, phase, config, usage, world0, procs, calls, granted, dmg>>

\* mutant: the ammunition's quantity is not looked at
AmmoBonusAppliesAnyQuantity(item, actor) ==
  /\ item.consume.type = "ammo"
  /\ item.consume.target \in DOMAIN actor.items
  /\ LET ammoItem == actor.items[item.consume.target]
     IN /\ ammoItem.attackBonus # ""
        /\ ammoItem.type = "consumable" /\ ammoItem.consumableType = "ammo"

\* ammoCanBeConsumed && ammoItemAttackBonus && ammoIsTypeConsumable, for the
\* item consume.target names among the actor's items
AmmoBonusApplies(item, actor) ==
  /\ item.consume.type = "ammo"
  /\ item.consume.target \in DOMAIN actor.items
  /\ LET ammoItem == actor.items[item.consume.target]
     IN /\ ammoItem.quantity # 0
        /\ ammoItem.quantity - NumberOf(item.consume.amount) >= 0
        /\ ammoItem.attackBonus # ""
        /\ ammoItem.type = "consumable" /\ ammoItem.consumableType = "ammo"

\* this.actor.system.bonuses?.[this.system.actionType] || {}, its attack
ActorAttackBonus(item, actor) ==
  IF item.actionType \in DOMAIN actor.bonuses THEN actor.bonuses[item.actionType].attack
  ELSE ""

\* getAttackToHit(): the parts returned (null when the item has no attack)
getAttackToHit(item, owner) ==
  IF ~HasAttack(item) THEN None
  ELSE LET ab == item.attackBonus
           parts0 == IF ab # "" THEN <<ab>> ELSE <<>>
       IN IF owner = None THEN Some(parts0)
          ELSE LET actor == Val(owner)
                   parts1 == Append(parts0, "@mod")
                   parts2 == IF item.type \notin {"weapon", "consumable"}
                                \/ item.proficient = Some(TRUE)
                             THEN Append(parts1, "@prof") ELSE parts1
                   parts3 == IF ActorAttackBonus(item, actor) # ""
                             THEN Append(parts2, ActorAttackBonus(item, actor)) ELSE parts2
               IN Some(IF AmmoBonusApplies(item, actor)
                       THEN Append(parts3, "@ammo") ELSE parts3)

\* an item the actor holds that an attack may name as its ammunition
AmmoItems ==
  {[type |-> "consumable", consumableType |-> "ammo", quantity |-> q, attackBonus |-> b] :
     q \in 0..MaxAmount, b \in {"", "3"}}
  \cup {[type |-> "consumable", consumableType |-> "potion", quantity |-> MaxAmount,
         attackBonus |-> "3"],
        [type |-> "weapon", consumableType |-> "", quantity |-> MaxAmount,
         attackBonus |-> "3"]}

AttackOwners ==
  {None} \cup {Some([bonuses |-> ("mwak" :> [attack |-> g] @@ "rsak" :> [attack |-> ""]),
                     items |-> its]) :
                 g \in {"", "1"}, its \in {EmptyObj} \cup {("ammo1" :> a) : a \in AmmoItems}}

AttackInputs ==
  {[fn |-> "getAttackToHit",
    item |-> [type |-> type, actionType |-> at, attackBonus |-> ab, proficient |-> pf,
              consume |-> c],
    owner |-> o] :
     type \in {"weapon", "consumable", "spell"}, at \in {"mwak", "rsak", "util"},
     ab \in {"", "2"}, pf \in {None, Some(TRUE), Some(FALSE)},
     c \in {NoConsume, [type |-> "material", target |-> "ammo1", amount |-> Some(1)]}
           \cup {[type |-> "ammo", target |-> "ammo1", amount |-> a] :
                   a \in {None, Some(1), Some(MaxAmount)}},
     o \in AttackOwners}

\* item.getAttackToHit()
GetAttackToHit ==
  /\ derived.phase = "ready" /\ derived.fn = "getAttackToHit"
  /\ derived' = [phase |-> "done", result |-> getAttackToHit(derived.item, derived.owner)]
                @@ derived
  /\ UNCHANGED <<world, phase, config, usage, world0, procs, calls, granted, dmg>>

InitDerive ==
  /\ \E in \in CriticalInputs \cup AdvancementInputs \cup AbilityInputs
                 \cup SaveInputs \cup AttackInputs : derived = [phase |-> "ready"] @@ in
  /\ world \in {w \in UseWorlds : w.item.type = "feat" /\ w.item.recharge.charged = Some(TRUE)}
  /\ world0 = world
  /\ phase = "off"
  /\ config = IdleCall.config
  /\ usage = NoUsage
  /\ procs = <<>>
  /\ calls = 0
  /\ granted = NothingGranted
  /\ dmg = NoDamage

NextDerive == GetCriticalThreshold \/ PrepareAdvancement \/ AbilityMod \/ GetSaveDC
              \/ GetAttackToHit

SpecDerive == InitDerive /\ [][NextDerive]_vars

-----------------------------------------------------------------------------
(* The class / subclass link: the items of one actor, the _classLink each  *)
(* holds, and the getters that fill it.                                    *)

\* the class and subclass items that may be embedded in the actor
LinkItems == {"cls1", "cls2", "sub1"}

ItemType(id) == IF id = "sub1" THEN "subclass" ELSE "class"

Identifiers == {"wizard", "fighter"}

NoReturn == [get |-> "", by |-> "", value |-> None]

\* this.parent.items.find(test): the first item of the collection passing
RECURSIVE Find(_, _)
Find(items, passing) ==
  IF items = <<>> THEN None
  ELSE IF Head(items) \in passing THEN Some(Head(items))
  ELSE Find(Tail(items), passing)

\* i => (i.type === "class") && (i.identifier === cid)
ClassesNamed(d, cid) ==
  {i \in LinkItems : ItemType(i) = "class" /\ d.identifier[i] = cid}

\* i => (i.type === "subclass") && (i.system.classIdentifier === cid)
SubclassesNaming(d, cid) ==
  {i \in LinkItems : ItemType(i) = "subclass" /\ d.identifier[i] = cid}

\* this._classLink ??= found: the value of the expression and the field after it
AssignIfNullish(link, found) == IF link # None THEN link ELSE found

Range(seq) == {seq[i] : i \in DOMAIN seq}

\* an item is created on the actor: a new document, its link not yet set
AddItem(id) ==
  /\ derived.phase = "linked"
  /\ id \notin Range(derived.items)
  /\ derived' = [derived EXCEPT !.items = Append(@, id), !.links[id] = None,
                                !.returned = NoReturn]
  /\ UNCHANGED <<world, phase, config, usage, world0, procs, calls, granted, dmg>>

\* an item is deleted from the actor
RemoveItem(id) ==
  /\ derived.phase = "linked"
  /\ id \in Range(derived.items)
  /\ derived' = [derived EXCEPT !.items = SelectSeq(@, LAMBDA i : i # id),
                                !.returned = NoReturn]
  /\ UNCHANGED <<world, phase, config, usage, world0, procs, calls, granted, dmg>>

\* a class's identifier, or a subclass's classIdentifier, is changed
UpdateIdentifier(id, cid) ==
  /\ derived.phase = "linked"
  /\ id \in Range(derived.items)
  /\ derived.identifier[id] # cid
  /\ derived' = [derived EXCEPT !.identifier[id] = cid, !.returned = NoReturn]
  /\ UNCHANGED <<world, phase, config, usage, world0, procs, calls, granted, dmg>>

\* item.prepareDerivedData(): this._classLink = undefined
PrepareDerivedData(id) ==
  /\ derived.phase = "linked"
  /\ id \in Range(derived.items)
  /\ derived' = [derived EXCEPT !.links[id] = None, !.returned = NoReturn]
  /\ UNCHANGED <<world, phase, config, usage, world0, procs, calls, granted, dmg>>

\* get class() of an embedded item
GetClass(id) ==
  /\ derived.phase = "linked"
  /\ id \in Range(derived.items)
  /\ IF ItemType(id) # "subclass"
     THEN derived' = [derived EXCEPT
                        !.returned = [get |-> "class", by |-> id, value |-> None]]
     ELSE LET cid == derived.identifier[id]
              link == AssignIfNullish(derived.links[id],
                                      Find(derived.items, ClassesNamed(derived, cid)))
          IN derived' = [derived EXCEPT
                           !.links[id] = link,
                           !.returned = [get |-> "class", by |-> id, value |-> link]]
  /\ UNCHANGED <<world, phase, config, usage, world0, procs, calls, granted, dmg>>

\* get subclass() of an embedded item
GetSubclass(id) ==
  /\ derived.phase = "linked"
  /\ id \in Range(derived.items)
  /\ IF ItemType(id) # "class"
     THEN derived' = [derived EXCEPT
                        !.returned = [get |-> "subclass", by |-> id, value |-> None]]
     ELSE LET cid == derived.identifier[id]
              link == AssignIfNullish(derived.links[id],
                                      Find(derived.items, SubclassesNaming(derived, cid)))
          IN derived' = [derived EXCEPT
                           !.links[id] = link,
                           !.returned = [get |-> "subclass", by |-> id, value |-> link]]
  /\ UNCHANGED <<world, phase, config, usage, world0, procs, calls, granted, dmg>>

\* an actor with no class yet
InitLink ==
  /\ derived = [phase |-> "linked", items |-> <<>>,
                identifier |-> [i \in LinkItems |-> "wizard"],
                links |-> [i \in LinkItems |-> None],
                returned |-> NoReturn]
  /\ world \in {w \in UseWorlds : w.item.type = "feat" /\ w.item.recharge.charged = Some(TRUE)}
  /\ world0 = world
  /\ phase = "off"
  /\ config = IdleCall.config
  /\ usage = NoUsage
  /\ procs = <<>>
  /\ calls = 0
  /\ granted = NothingGranted
  /\ dmg = NoDamage

NextLink ==
  \E id \in LinkItems :
    \/ AddItem(id)
    \/ RemoveItem(id)
    \/ \E cid \in Identifiers : UpdateIdentifier(id, cid)
    \/ PrepareDerivedData(id)
    \/ GetClass(id)
    \/ GetSubclass(id)

SpecLink == InitLink /\ [][NextLink]_vars

-----------------------------------------------------------------------------
(* rollAttack(): the ammunition is resolved before the roll and written    *)
(* after it.  derived holds the call: where it stands, how often d20Roll   *)
(* was called and the update applied, and what it returned.                *)

\* this._getUsageUpdates({consumeResource: true})
AmmoConfig == UseConfig(FALSE, FALSE, TRUE, FALSE, NoLevel, FALSE)

\* this._ammo: set when the ammunition's quantity is non-zero and covers
\* consume.amount ?? 0
LoadedAmmo(w) ==
  LET consume == w.item.consume
  IN IF consume.type = "ammo" /\ consume.target \in DOMAIN w.items
        /\ w.items[consume.target].quantity # 0
        /\ w.items[consume.target].quantity - NumberOf(consume.amount) >= 0
     THEN Some(consume.target) ELSE None

NoAttack ==
  [phase |-> "attack", pc |-> "idle", returned |-> "none", roll |-> "none",
   rolls |-> 0, applied |-> 0, ammoUpdate |-> <<>>, ammo |-> None]

\* mutant: the pending ammunition update is written whatever d20Roll resolved to
AfterD20RollCommitAnyway(d, roll) ==
  IF d.ammoUpdate # <<>> THEN [d EXCEPT !.pc = "ammoUpdate", !.roll = roll]
  ELSE [d EXCEPT !.pc = "idle", !.roll = roll, !.returned = roll]

\* the code after await d20Roll(rollConfig), up to the next await or return
AfterD20Roll(d, roll) ==
  IF roll = "null" THEN [d EXCEPT !.pc = "idle", !.roll = roll, !.returned = "null"]
  ELSE IF d.ammoUpdate # <<>> THEN [d EXCEPT !.pc = "ammoUpdate", !.roll = roll]
  ELSE [d EXCEPT !.pc = "idle", !.roll = roll, !.returned = roll]

\* the code from the ammunition block to await d20Roll(rollConfig)
BeforeD20Roll(w, veto) ==
  LET consume == w.item.consume
      r == _getUsageUpdates(w, AmmoConfig)
      d == [NoAttack EXCEPT !.ammo = LoadedAmmo(w)]
  IN IF consume.type = "ammo" /\ r.returned = "false"
     THEN [d EXCEPT !.returned = "null"]
     ELSE LET pending == [d EXCEPT !.ammoUpdate = IF consume.type = "ammo"
                                                  THEN r.resourceUpdates ELSE <<>>]
          IN IF veto THEN [pending EXCEPT !.returned = "undefined"]
             ELSE [pending EXCEPT !.pc = "d20Roll", !.rolls = 1]

\* item.rollAttack() is called, and runs to its first await or return
RollAttackStart ==
  /\ derived.phase = "attack" /\ derived.pc = "idle"
  /\ calls < MaxCalls
  /\ calls' = calls + 1
  /\ world0' = world
  /\ IF ~HasAttack(world.item)
     THEN /\ derived' = [NoAttack EXCEPT !.returned = "threw"]
          /\ UNCHANGED <<world, usage>>
     ELSE /\ \E veto \in BOOLEAN : derived' = BeforeD20Roll(world, veto)
          /\ IF world.item.consume.type = "ammo"
             THEN LET r == _getUsageUpdates(world, AmmoConfig)
                  IN /\ world' = r.world
                     /\ usage' = [returned |-> r.returned, itemUpdates |-> r.itemUpdates,
                                  actorUpdates |-> r.actorUpdates,
                                  resourceUpdates |-> r.resourceUpdates,
                                  warnings |-> r.warnings]
             ELSE /\ UNCHANGED world
                  /\ usage' = NoUsage
  /\ UNCHANGED <<phase, config, procs, granted, dmg>>

\* await d20Roll(rollConfig) resolved: null when the dialog was closed
D20RollDone ==
  /\ derived.phase = "attack" /\ derived.pc = "d20Roll"
  /\ \E roll \in {"null", "roll"} : derived' = AfterD20Roll(derived, roll)
  /\ UNCHANGED <<world, phase, config, usage, world0, procs, calls, granted, dmg>>

\* await this.actor?.updateEmbeddedDocuments("Item", ammoUpdate) resolved
AmmoUpdateDone ==
  /\ derived.phase = "attack" /\ derived.pc = "ammoUpdate"
  /\ world' = ApplyResourceUpdates(world, derived.ammoUpdate)
  /\ derived' = [derived EXCEPT !.pc = "idle", !.applied = @ + 1, !.returned = derived.roll]
  /\ UNCHANGED <<phase, config, usage, world0, procs, calls, granted, dmg>>

\* the consume blocks of the items attacked with
AttackConsumes ==
  {NoConsume,
   [type |-> "ammo", target |-> "", amount |-> Some(1)],
   [type |-> "ammo", target |-> "gone1", amount |-> Some(1)],
   [type |-> "material", target |-> "ammo1", amount |-> Some(1)]}
  \cup {[type |-> "ammo", target |-> "ammo1", amount |-> a] :
          a \in {None} \cup {Some(n) : n \in 0..MaxAmount}}

AttackWorlds ==
  {[item |-> UsedItem("weapon", at, 0, "", NoUses, FALSE, Some(1), NoRecharge, c),
    sys |-> ActorSystem(0, 0, 0, 0),
    items |-> ("ammo1" :> Physical(q)), classes |-> <<>>] :
     at \in {"rwak", "util"}, c \in AttackConsumes, q \in 0..MaxUses}

InitAttack ==
  /\ world \in AttackWorlds
  /\ world0 = world
  /\ derived = NoAttack
  /\ phase = "off"
  /\ config = IdleCall.config
  /\ usage = NoUsage
  /\ procs = <<>>
  /\ calls = 0
  /\ granted = NothingGranted
  /\ dmg = NoDamage

NextAttack == RollAttackStart \/ D20RollDone \/ AmmoUpdateDone

SpecAttack == InitAttack /\ [][NextAttack]_vars

-----------------------------------------------------------------------------
(* rollRecharge() beside use(): derived holds the recharge call (where it  *)
(* stands, what it returned) and counts the rolls that recharged the item  *)
(* and the updates they sent that have not resolved yet.                   *)

\* the faces of the 1d6 rolled
RechargeTotals == 1..6

NoRecharging ==
  [phase |-> "recharge", pc |-> "idle", returned |-> "none", started |-> 0,
   succeeded |-> 0, pending |-> 0]

\* the code after await roll(): success = roll.total >= rollConfig.target, the
\* dnd5e.rollRecharge hook, and this.update(...), which is not awaited
AfterRechargeRoll(d, target, total, veto) ==
  IF veto THEN [d EXCEPT !.pc = "idle", !.returned = "roll"]
  ELSE IF total >= target
  THEN [d EXCEPT !.pc = "idle", !.returned = "roll",
                 !.succeeded = @ + 1, !.pending = @ + 1]
  ELSE [d EXCEPT !.pc = "idle", !.returned = "roll"]

\* item.rollRecharge() is called, and runs to await roll() or returns
RollRechargeStart ==
  /\ derived.phase = "recharge" /\ derived.pc = "idle"
  /\ derived.started < MaxCalls
  /\ \E veto \in BOOLEAN :
       derived' =
         IF NumberOf(world.item.recharge.value) = 0 \/ veto
         THEN [derived EXCEPT !.started = @ + 1, !.returned = "undefined"]
         ELSE [derived EXCEPT !.started = @ + 1, !.returned = "none", !.pc = "roll"]
  /\ UNCHANGED <<world, phase, config, usage, world0, procs, calls, granted, dmg>>

\* await new Roll("1d6").roll({async: true}) resolved
RechargeRollDone ==
  /\ derived.phase = "recharge" /\ derived.pc = "roll"
  /\ \E total \in RechargeTotals, veto \in BOOLEAN :
       derived' = AfterRechargeRoll(derived, NumberOf(world.item.recharge.value),
                                    total, veto)
  /\ UNCHANGED <<world, phase, config, usage, world0, procs, calls, granted, dmg>>

\* this.update({"system.recharge.charged": true}) resolved (or rejected: the
\* item is gone)
RechargeUpdateDone ==
  /\ derived.phase = "recharge" /\ derived.pending > 0
  /\ derived' = [derived EXCEPT !.pending = @ - 1]
  /\ world' = IF world.item.exists
              THEN ApplyItemUpdates(world, ("system.recharge.charged" :> TRUE))
              ELSE world
  /\ UNCHANGED <<phase, config, usage, world0, procs, calls, granted, dmg>>

\* features that recharge, with a linked attribute or material, and one
\* item without a recharge value
RechargeWorlds ==
  {[item |-> UsedItem("feat", "", 0, "", NoUses, FALSE, Some(0),
                      [value |-> Some(5), charged |-> Some(c)],
                      [type |-> "attribute", target |-> "resources.primary.value",
                       amount |-> Some(1)]),
    sys |-> ActorSystem(MaxUses, 0, 0, 0),
    items |-> EmptyObj, classes |-> <<>>] : c \in BOOLEAN}
  \cup
  {[item |-> UsedItem("feat", "", 0, "", NoUses, FALSE, Some(1),
                      [value |-> Some(5), charged |-> Some(TRUE)],
                      [type |-> "material", target |-> "mat1", amount |-> Some(1)]),
    sys |-> ActorSystem(0, 0, 0, 0),
    items |-> ("mat1" :> Physical(MaxUses)), classes |-> <<>>],
   [item |-> UsedItem("feat", "", 0, "", NoUses, FALSE, Some(1),
                      [value |-> None, charged |-> None], NoConsume),
    sys |-> ActorSystem(0, 0, 0, 0),
    items |-> EmptyObj, classes |-> <<>>]}

InitRecharge ==
  /\ world \in RechargeWorlds
  /\ world0 = world
  /\ derived = NoRecharging
  /\ procs = [p \in Callers |-> IdleCall]
  /\ calls = 0
  /\ phase = "off"
  /\ config = IdleCall.config
  /\ usage = NoUsage
  /\ granted = NothingGranted
  /\ dmg = NoDamage

NextRecharge ==
  \/ \E p \in Callers :
       \/ UseStart(p)
       \/ DialogReturn(p)
       \/ ItemUpdateDone(p)
       \/ ItemDeleteDone(p)
       \/ ActorUpdateDone(p)
       \/ ResourceUpdateDone(p)
       \/ CardDone(p)
  \/ RollRechargeStart
  \/ RechargeRollDone
  \/ RechargeUpdateDone

SpecRecharge == InitRecharge /\ [][NextRecharge]_vars

-----------------------------------------------------------------------------
(* What a configuration asks of the documents, stated on the documents     *)
(* alone (world0 is what they held before the attempt).                    *)

Resolved == phase = "resolved"
Succeeded == Resolved /\ usage.returned = "updates"
Failed == Resolved /\ usage.returned = "false"

Consume0 == world0.item.consume
RequiredAmount == IF IsNull(Consume0.amount) THEN 1 ELSE Val(Consume0.amount)

\* the classes a hitDice target draws on
TargetClasses ==
  {i \in 1..Len(world0.classes) :
     Consume0.target \in {"smallest", "largest"}
     \/ world0.items[world0.classes[i]].hitDice = Consume0.target}

RECURSIVE SumOver(_, _)
SumOver(S, f) ==
  IF S = {} THEN 0 ELSE LET x == CHOOSE y \in S : TRUE IN f[x] + SumOver(S \ {x}, f)

UnusedHitDice ==
  SumOver(TargetClasses,
          [i \in TargetClasses |-> world0.items[world0.classes[i]].levels
                                   - world0.items[world0.classes[i]].hitDiceUsed])

\* the linked resource exists and holds less than is asked of it
LinkedShort ==
  /\ config.consumeResource
  /\ Consume0.type # "" /\ Consume0.target # ""
  /\ \/ /\ Consume0.type = "attribute"
        /\ Consume0.target \in DOMAIN world0.sys
        /\ world0.sys[Consume0.target] < RequiredAmount
     \/ /\ Consume0.type \in {"ammo", "material"}
        /\ Consume0.target \in DOMAIN world0.items
        /\ world0.items[Consume0.target].quantity < RequiredAmount
     \/ /\ Consume0.type = "hitDice"
        /\ UnusedHitDice < RequiredAmount
     \/ /\ Consume0.type = "charges"
        /\ Consume0.target \in DOMAIN world0.items
        /\ LET res == world0.items[Consume0.target]
           IN IF res.uses.per # "" /\ res.uses.max \notin {None, Some(0)}
              THEN res.uses.value < RequiredAmount
              ELSE IF res.recharge.value \notin {None, Some(0)}
                   THEN res.recharge.charged # Some(TRUE)
                   ELSE 0 < RequiredAmount

\* the linked resource has no target, or its target is not there
LinkedMissing ==
  /\ config.consumeResource
  /\ Consume0.type # ""
  /\ \/ Consume0.target = ""
     \/ Consume0.type = "attribute" /\ Consume0.target \notin DOMAIN world0.sys
     \/ Consume0.type \in {"ammo", "material", "charges"}
        /\ Consume0.target \notin DOMAIN world0.items

\* the item's charge is asked for and the item is discharged
RechargeShort == config.consumeRecharge /\ world0.item.recharge.charged = Some(FALSE)

\* the pool of a spell level, by level
LevelPool(level) ==
  IF level.tag = "pact" THEN "spells.pact.value"
  ELSE <<"spells.spell1.value", "spells.spell2.value", "spells.spell3.value",
         "spells.spell4.value", "spells.spell5.value">>[level.n]

SlotAsked == config.consumeSpellSlot /\ Truthy(config.consumeSpellLevel)
SlotsLeft ==
  IF LevelPool(config.consumeSpellLevel) \in DOMAIN world0.sys
  THEN world0.sys[LevelPool(config.consumeSpellLevel)] ELSE 0
SlotShort == SlotAsked /\ SlotsLeft = 0

QuantityLeft == IF IsNull(world0.item.quantity) THEN 1 ELSE Val(world0.item.quantity)
UsesShort ==
  /\ config.consumeUsage
  /\ world0.item.uses.value < 1
  /\ ~(config.consumeQuantity /\ QuantityLeft >= 1)

NoBuckets ==
  /\ IsEmpty(usage.itemUpdates)
  /\ IsEmpty(usage.actorUpdates)
  /\ usage.resourceUpdates = <<>>

-----------------------------------------------------------------------------
(* C1: whenever a requested step finds less than it needs (the item is not *)
(* charged, the linked resource holds less than the amount, the spell-slot *)
(* pool is empty, neither a use nor a unit of quantity is left),           *)
(* _getUsageUpdates returns false, hands back no bucket, and the item, the *)
(* actor and every sibling item hold what they held before the attempt.    *)
C1_InsufficientFails ==
  (Resolved /\ (RechargeShort \/ LinkedShort \/ SlotShort \/ UsesShort))
    => (usage.returned = "false" /\ NoBuckets /\ world = world0)

\* a linked resource is short after the recharge step had already placed its update
C1_Witness ==
  /\ Failed
  /\ LinkedShort
  /\ config.consumeRecharge /\ world0.item.recharge.charged = Some(TRUE)
  /\ Consume0.type = "hitDice"

\* the requests of the commit that write a bucket
BucketRequests == {"item.update", "actor.update", "actor.updateEmbeddedDocuments"}

\* the bucket requests a call's resolution calls for: one per non-empty bucket
BucketsToCommit(pr) ==
  (IF ~IsEmpty(pr.usage.itemUpdates) THEN {"item.update"} ELSE {})
  \cup (IF ~IsEmpty(pr.usage.actorUpdates) THEN {"actor.update"} ELSE {})
  \cup (IF pr.usage.resourceUpdates # <<>> THEN {"actor.updateEmbeddedDocuments"} ELSE {})

\* the call was stopped: its dialog returned nothing, or a hook returned false
Stopped(pr) ==
  \/ pr.dialog = "cancelled"
  \/ \E i \in 1..Len(pr.hooks) : pr.hooks[i] = FALSE

\* the call got past the last hook and into the commit
Committing(pr) ==
  pr.pc \in {"itemUpdate", "itemDelete", "actorUpdate", "resourceUpdate", "card"}
  \/ pr.outcome \in {"used", "rejected"}

(* C2: a use() call whose configuration dialog was cancelled, or one of    *)
(* whose hooks dnd5e.preUseItem, dnd5e.preItemUsageConsumption or          *)
(* dnd5e.itemUsageConsumption returned false, has ended, and has issued no *)
(* item update, item deletion, actor update or sibling-item update,        *)
(* displayed no card and fired no dnd5e.useItem.                           *)
C2_StoppedCallIssuesNothing ==
  \A p \in DOMAIN procs :
    Stopped(procs[p]) =>
      /\ procs[p].pc = "idle"
      /\ procs[p].outcome \in {"vetoed", "cancelled"}
      /\ procs[p].issued = {}
      /\ procs[p].applied = {}

\* dnd5e.itemUsageConsumption returns false to a call whose resolution had
\* filled two buckets, and a dialog is cancelled in the other call
C2_Witness ==
  /\ procs["a"].outcome = "vetoed"
  /\ Len(procs["a"].hooks) = 3 /\ procs["a"].hooks[3] = FALSE
  /\ procs["a"].usage.returned = "updates"
  /\ ~IsEmpty(procs["a"].usage.itemUpdates)
  /\ ~IsEmpty(procs["a"].usage.actorUpdates)
  /\ procs["a"].issued = {}
  /\ procs["b"].outcome = "cancelled"
  /\ procs["b"].issued = {}
  /\ world = world0

(* C3: usages of one item are serialized: no call resolves its consumption *)
(* while another call's updates are still to be committed, so the          *)
(* successful usages never take more slots of a pool, more charges of the  *)
(* item or more units of the linked resource than were there.              *)
C3_NoDoubleSpend ==
  /\ \A pool \in DOMAIN granted.slots : granted.slots[pool] <= world0.sys[pool]
  /\ granted.refills = 0 => granted.uses <= world0.item.uses.value
  /\ \A id \in DOMAIN world0.items : granted.material <= world0.items[id].quantity

(* C4: the non-empty buckets of one usage are committed as one step: in    *)
(* every state, a call that got into the commit has had either none or all *)
(* of the bucket requests its resolution calls for applied.                *)
C4_BucketsCommittedTogether ==
  \A p \in DOMAIN procs :
    Committing(procs[p]) =>
      procs[p].applied \cap BucketRequests \in {{}, BucketsToCommit(procs[p])}

(* C5: a resolution, whether it succeeds or fails, leaves the item's       *)
(* stored data, the actor's data and every sibling item's data as they     *)
(* were; what it computed is in the returned buckets only.                 *)
C5_NoInPlaceWrite == Resolved => world = world0

\* a success that computed a change for the item and for a sibling item
C5_Witness ==
  /\ Succeeded
  /\ "system.uses.value" \in DOMAIN usage.itemUpdates
  /\ usage.resourceUpdates # <<>>
  /\ world = world0

\* the hitDiceUsed a class update carries, less what the class held
RECURSIVE HitDiceIncrements(_)
HitDiceIncrements(updates) ==
  IF updates = <<>> THEN 0
  ELSE (Head(updates).changes["system.hitDiceUsed"]
        - world0.items[Head(updates).id].hitDiceUsed)
       + HitDiceIncrements(Tail(updates))

HitDiceConsumed ==
  /\ Succeeded
  /\ config.consumeResource
  /\ Consume0.type = "hitDice" /\ Consume0.target # ""

(* C6: when the hitDice step succeeds, the increments of hitDiceUsed over  *)
(* the class updates it produced sum to the amount that was validated      *)
(* against the aggregate (consume.amount, 1 when unset), and no class's    *)
(* resulting hitDiceUsed exceeds its levels.                               *)
C6_HitDiceSumIsAmount ==
  HitDiceConsumed =>
    /\ HitDiceIncrements(usage.resourceUpdates) = RequiredAmount
    /\ \A i \in 1..Len(usage.resourceUpdates) :
         usage.resourceUpdates[i].changes["system.hitDiceUsed"]
           <= world0.items[usage.resourceUpdates[i].id].levels

\* the limited-uses step is reached with the counter at 0 and a unit of quantity left
FallbackCase ==
  /\ Resolved
  /\ config.consumeUsage /\ config.consumeQuantity
  /\ world0.item.uses.value = 0
  /\ ~IsNull(world0.item.quantity) /\ Val(world0.item.quantity) >= 1
  /\ ~(RechargeShort \/ LinkedShort \/ LinkedMissing \/ SlotShort)

(* C7 as stated: in the fallback case _getUsageUpdates succeeds and its    *)
(* itemUpdates set quantity to q - 1 and uses.value to uses.max.           *)
C7_FallbackResetsToMax ==
  FallbackCase =>
    /\ usage.returned = "updates"
    /\ "system.quantity" \in DOMAIN usage.itemUpdates
    /\ usage.itemUpdates["system.quantity"] = Val(world0.item.quantity) - 1
    /\ "system.uses.value" \in DOMAIN usage.itemUpdates
    /\ Some(usage.itemUpdates["system.uses.value"]) = world0.item.uses.max

(* C7 as amended: in the fallback case (no earlier step failing)           *)
(* _getUsageUpdates succeeds and its itemUpdates set quantity to q - 1 and *)
(* uses.value to uses.max, or to 1 when uses.max is unset.                 *)
C7_FallbackResetsToMaxOrOne ==
  FallbackCase =>
    /\ usage.returned = "updates"
    /\ "system.quantity" \in DOMAIN usage.itemUpdates
    /\ usage.itemUpdates["system.quantity"] = Val(world0.item.quantity) - 1
    /\ "system.uses.value" \in DOMAIN usage.itemUpdates
    /\ usage.itemUpdates["system.uses.value"] =
         (IF IsNull(world0.item.uses.max) THEN 1 ELSE Val(world0.item.uses.max))

\* the spec's example: uses {value 0, max 2}, quantity 2 gives quantity 1, uses.value 2
C7_Witness ==
  /\ FallbackCase
  /\ world0.item.uses.max = Some(MaxUses)
  /\ world0.item.quantity = Some(2)
  /\ usage.itemUpdates["system.quantity"] = 1
  /\ usage.itemUpdates["system.uses.value"] = MaxUses

SpellPools ==
  {"spells.pact.value", "spells.spell1.value", "spells.spell2.value",
   "spells.spell3.value", "spells.spell4.value", "spells.spell5.value"}

(* C8: when a slot is required at a level (or "pact"), _getUsageUpdates     *)
(* fails if the actor's pool at that level is empty; otherwise (no other   *)
(* step failing) it succeeds, and whenever it succeeds actorUpdates holds  *)
(* for that pool its value minus one, not below zero, and holds no other   *)
(* level's pool.                                                           *)
C8_SlotStep ==
  (Resolved /\ SlotAsked) =>
    /\ SlotsLeft = 0 => usage.returned = "false"
    /\ (SlotsLeft > 0 /\ ~(RechargeShort \/ LinkedShort \/ LinkedMissing \/ UsesShort))
         => usage.returned = "updates"
    /\ usage.returned = "updates" =>
         /\ (DOMAIN usage.actorUpdates) \cap SpellPools = {LevelPool(config.consumeSpellLevel)}
         /\ usage.actorUpdates[LevelPool(config.consumeSpellLevel)] = SlotsLeft - 1
         /\ usage.actorUpdates[LevelPool(config.consumeSpellLevel)] >= 0

\* a slot of the pact pool is taken while the item also spends a use
C8_Witness ==
  /\ Succeeded
  /\ config.consumeSpellSlot /\ config.consumeSpellLevel = PactLevel
  /\ world0.sys["spells.pact.value"] = 1
  /\ usage.actorUpdates["spells.pact.value"] = 0
  /\ "system.uses.value" \in DOMAIN usage.itemUpdates

\* the scaling block took the cantrip branch
CantripScaled == dmg.phase = "scaled" /\ dmg.branch = "cantrip"

\* the caster level of the cantrip, from the actor's details
CasterLevel ==
  CASE dmg.actor.type = "character" -> dmg.actor.level
    [] dmg.actor.type = "npc" /\ dmg.item.mode = "innate" ->
         CHOOSE n \in 0..MaxLevel + 1 : 8 * (n - 1) < dmg.actor.cr /\ dmg.actor.cr <= 8 * n
    [] OTHER -> dmg.actor.spellLevel

\* the scaling steps a caster level has reached
StepsReached(level) == Cardinality({step \in {5, 11, 17} : step <= level})

\* the formula a cantrip scales by: scaling.formula, or the joined parts
CantripScale ==
  IF dmg.item.scaling.formula # <<>> THEN dmg.item.scaling.formula ELSE Join(dmg.parts0)

\* the first part gained k times the terms of formula: into its leading die
\* when the formula is one die of that kind, behind its terms otherwise
Gained(formula, k) ==
  LET p0 == dmg.parts0[1]
      p1 == dmg.parts[1]
  IN IF Len(formula) = 1 /\ formula[1].kind = "Die" /\ p0[1].kind = "Die"
        /\ p0[1].faces = formula[1].faces /\ p0[1].modifiers = formula[1].modifiers
     THEN /\ Len(p1) = Len(p0)
          /\ p1[1].number = p0[1].number + k * formula[1].number
          /\ \A i \in 2..Len(p0) : p1[i] = p0[i]
     ELSE /\ Len(p1) = Len(p0) + Len(formula)
          /\ \A i \in 1..Len(p0) : p1[i] = p0[i]
          /\ \A i \in 1..Len(formula) :
               /\ p1[Len(p0) + i].kind = formula[i].kind
               /\ p1[Len(p0) + i].faces = formula[i].faces
               /\ p1[Len(p0) + i].modifiers = formula[i].modifiers
               /\ p1[Len(p0) + i].number =
                    (IF formula[i].kind = "Die" THEN k ELSE 1) * formula[i].number

(* C9: for every caster level L in 0..20 a cantrip's scaling formula is    *)
(* added floor((L + 1) / 6) times, one more at each of the levels 5, 11    *)
(* and 17: the parts are as they were when that is 0, and otherwise the    *)
(* first part has gained that many times the scaling dice.                 *)
C9_CantripAddCount ==
  (CantripScaled /\ CasterLevel \in 0..20) =>
    /\ dmg.scaled = (CasterLevel + 1) \div 6
    /\ dmg.scaled = StepsReached(CasterLevel)
    /\ dmg.scaled = 0 => dmg.parts = dmg.parts0
    /\ dmg.scaled > 0 =>
         /\ Gained(CantripScale, dmg.scaled)
         /\ Tail(dmg.parts) = Tail(dmg.parts0)

\* the spec's example, level 5 gives 1: a 1d8 cantrip of a level-5 character rolls 2d8
C9_Witness ==
  /\ CantripScaled
  /\ dmg.actor.type = "character" /\ dmg.actor.level = 5
  /\ dmg.item.scaling.formula = <<Die(1, 8, <<>>)>>
  /\ dmg.parts0 = <<<<Die(1, 8, <<>>)>>>>
  /\ dmg.scaled = 1
  /\ dmg.parts = <<<<Die(2, 8, <<>>)>>>>

\* rollDamage was given a cast level for a spell that scales by level
LevelScaled ==
  /\ dmg.phase = "scaled"
  /\ dmg.item.type = "spell" /\ dmg.item.scaling.mode = "level"
  /\ dmg.item.scaling.formula # <<>>
  /\ ~IsNull(dmg.spellLevel)

(* C10: a spell of base level b cast at level c has its scaling formula    *)
(* applied max(c - b, 0) times: the first part gains that many times the   *)
(* scaling dice when c > b, and the parts are as they were when c <= b.    *)
C10_UpcastCount ==
  LevelScaled =>
    LET b == dmg.item.level
        c == Val(dmg.spellLevel)
    IN /\ dmg.scaled = (IF c > b THEN c - b ELSE 0)
       /\ c <= b => dmg.parts = dmg.parts0
       /\ c > b => /\ Gained(dmg.item.scaling.formula, c - b)
                   /\ Tail(dmg.parts) = Tail(dmg.parts0)

\* the spec's example, base level 3 cast at level 5: the scaling die is added twice
C10_Witness ==
  /\ LevelScaled
  /\ dmg.item.level = 3 /\ dmg.spellLevel = Some(5)
  /\ dmg.item.scaling.formula = <<Die(1, 8, <<>>)>>
  /\ dmg.parts0 = <<<<Die(2, 8, <<>>)>>, <<NumericTerm(1)>>>>
  /\ dmg.scaled = 2
  /\ dmg.parts = <<<<Die(4, 8, <<>>)>>, <<NumericTerm(1)>>>>

\* the warning of the first step, in the order recharge, linked resource, spell
\* slot, limited uses, that does not find what it needs ("" when every step does)
FirstFailure ==
  IF RechargeShort THEN "DND5E.ItemNoUses"
  ELSE IF LinkedMissing /\ Consume0.target = "" THEN "DND5E.ConsumeWarningNoResource"
  ELSE IF LinkedMissing THEN "DND5E.ConsumeWarningNoSource"
  ELSE IF LinkedShort THEN "DND5E.ConsumeWarningNoQuantity"
  ELSE IF SlotShort THEN "DND5E.SpellCastNoSlots"
  ELSE IF UsesShort THEN "DND5E.ItemNoUses"
  ELSE ""

(* C13: _getUsageUpdates takes its steps in the order recharge, linked     *)
(* resource, spell slot, limited uses/quantity: it fails exactly when one  *)
(* of them does not find what it needs, and then it has emitted one        *)
(* warning, that of the first such step in this order, and hands back no   *)
(* update, those earlier steps had placed included; when none fails it     *)
(* emits no warning.                                                       *)
C13_StopsAtFirstFailure ==
  Resolved =>
    IF FirstFailure = ""
    THEN usage.returned = "updates" /\ usage.warnings = <<>>
    ELSE usage.returned = "false" /\ usage.warnings = <<FirstFailure>> /\ NoBuckets

\* the linked resource is short after the recharge step had placed its update,
\* and the spell-slot step would have failed too
C13_Witness ==
  /\ Failed
  /\ config.consumeRecharge /\ world0.item.recharge.charged = Some(TRUE)
  /\ LinkedShort /\ SlotShort
  /\ usage.warnings = <<"DND5E.ConsumeWarningNoQuantity">>

(* C14: when consumeRecharge is set, _getUsageUpdates succeeds only if the *)
(* item's recharge.charged is true, and on success itemUpdates sets        *)
(* recharge.charged to false.                                              *)
C14_RechargeStep ==
  (Resolved /\ config.consumeRecharge /\ usage.returned = "updates") =>
    /\ world0.item.recharge.charged = Some(TRUE)
    /\ "system.recharge.charged" \in DOMAIN usage.itemUpdates
    /\ usage.itemUpdates["system.recharge.charged"] = FALSE

\* the linked-resource step is reached with a consume type configured
LinkedStep ==
  /\ Resolved
  /\ config.consumeResource /\ ~RechargeShort
  /\ Consume0.type # ""

\* the resolution as the linked-resource step finds it, and as it leaves it
BeforeLinked == ConsumeRecharge(NewRun(world0), config)
AfterLinked == _handleConsumeResource(BeforeLinked)

\* the step returned false with this warning and appended nothing
LinkedFailsWith(warning) ==
  /\ usage.returned = "false"
  /\ usage.warnings = <<warning>>
  /\ ~AfterLinked.ok
  /\ AfterLinked.itemUpdates = BeforeLinked.itemUpdates
  /\ AfterLinked.actorUpdates = BeforeLinked.actorUpdates
  /\ AfterLinked.resourceUpdates = BeforeLinked.resourceUpdates

(* C15: the linked-resource step tells its failures apart: with no target  *)
(* configured it warns no-resource; with a target that is no field of the  *)
(* actor or no item of the actor it warns no-source; with a target that is *)
(* there and holds less than the amount it warns no-quantity; and in each  *)
(* of the three cases it has appended nothing to a bucket.                 *)
C15_LinkedFailuresDistinct ==
  LinkedStep =>
    /\ Consume0.target = "" => LinkedFailsWith("DND5E.ConsumeWarningNoResource")
    /\ (LinkedMissing /\ Consume0.target # "")
         => LinkedFailsWith("DND5E.ConsumeWarningNoSource")
    /\ LinkedShort => LinkedFailsWith("DND5E.ConsumeWarningNoQuantity")

\* the material an item consumes is no item of the actor, the recharge step
\* having placed its update before
C15_Witness ==
  /\ LinkedStep
  /\ Consume0.type = "material" /\ Consume0.target = "gone"
  /\ config.consumeRecharge
  /\ BeforeLinked.itemUpdates # EmptyObj
  /\ usage.warnings = <<"DND5E.ConsumeWarningNoSource">>

\* the linked-resource step succeeded on an actor field or a sibling item
LinkedSucceeded ==
  /\ Succeeded
  /\ config.consumeResource
  /\ Consume0.type \in {"attribute", "ammo", "material", "charges"}

\* the sibling is recharge-style: no limited uses, a recharge value
RechargeStyle(res) ==
  /\ ~(res.uses.per # "" /\ res.uses.max \notin {None, Some(0)})
  /\ res.recharge.value \notin {None, Some(0)}

\* the actor's fields other than the spell-slot pools
ActorFields(updates) == {k \in DOMAIN updates : k \notin SpellPools}

(* C16: a successful linked-resource step produces exactly one update, in  *)
(* the bucket of its kind: attribute puts the field's value minus the      *)
(* amount in actorUpdates; ammo and material put the sibling's quantity    *)
(* minus the amount in resourceUpdates; charges put the sibling's          *)
(* uses.value minus the amount in resourceUpdates or, for a recharge-style *)
(* sibling, recharge.charged = false (the amount counting as 1).           *)
C16_LinkedUpdate ==
  LinkedSucceeded =>
    LET target == Consume0.target
    IN IF Consume0.type = "attribute"
       THEN /\ ActorFields(usage.actorUpdates) = {target}
            /\ usage.actorUpdates[target] = world0.sys[target] - RequiredAmount
            /\ usage.resourceUpdates = <<>>
       ELSE /\ ActorFields(usage.actorUpdates) = {}
            /\ Len(usage.resourceUpdates) = 1
            /\ usage.resourceUpdates[1].id = target
            /\ usage.resourceUpdates[1].changes =
                 (IF Consume0.type \in {"ammo", "material"}
                  THEN "system.quantity" :> (world0.items[target].quantity - RequiredAmount)
                  ELSE IF RechargeStyle(world0.items[target])
                  THEN "system.recharge.charged" :> FALSE
                  ELSE "system.uses.value" :>
                         (world0.items[target].uses.value - RequiredAmount))

\* the hitDiceUsed of a class after the consumption
UsedAfter(id) ==
  IF \E i \in 1..Len(usage.resourceUpdates) : usage.resourceUpdates[i].id = id
  THEN LET i == CHOOSE i \in 1..Len(usage.resourceUpdates) : usage.resourceUpdates[i].id = id
       IN usage.resourceUpdates[i].changes["system.hitDiceUsed"]
  ELSE world0.items[id].hitDiceUsed

\* class c comes before class d in the order of the target
TakenBefore(c, d) ==
  IF Consume0.target = "smallest"
  THEN Faces(world0.items[c].hitDice) < Faces(world0.items[d].hitDice)
  ELSE Faces(world0.items[c].hitDice) > Faces(world0.items[d].hitDice)

\* the classes of the actor
ClassIds == {world0.classes[i] : i \in 1..Len(world0.classes)}

(* C17: hit dice are taken greedily in the order of the target, ascending  *)
(* die size for "smallest" and descending for "largest": a class gets an   *)
(* increment of hitDiceUsed only if every class before it in that order    *)
(* has no unused hit die left after the consumption.                       *)
C17_HitDiceGreedy ==
  (HitDiceConsumed /\ Consume0.target \in {"smallest", "largest"}) =>
    \A d \in ClassIds :
      UsedAfter(d) > world0.items[d].hitDiceUsed =>
        \A c \in ClassIds :
          TakenBefore(c, d) => UsedAfter(c) = world0.items[c].levels

\* "largest" with two dice asked: the d10 class gives its one die, the d8 class the other
C17_Witness ==
  /\ HitDiceConsumed /\ Consume0.target = "largest" /\ Consume0.amount = Some(2)
  /\ world0.items["cls1"].hitDice = "d10"
  /\ world0.items["cls1"].levels = 1 /\ world0.items["cls1"].hitDiceUsed = 0
  /\ world0.items["cls2"].levels = 2 /\ world0.items["cls2"].hitDiceUsed = 0
  /\ UsedAfter("cls1") = 1 /\ UsedAfter("cls2") = 1

\* the limited-uses step is reached
UsageStep ==
  /\ Resolved
  /\ config.consumeUsage
  /\ ~(RechargeShort \/ LinkedShort \/ LinkedMissing \/ SlotShort)

\* the step took one use and left the quantity alone
TookUse ==
  /\ usage.returned = "updates"
  /\ "system.uses.value" \in DOMAIN usage.itemUpdates
  /\ usage.itemUpdates["system.uses.value"] = world0.item.uses.value - 1
  /\ "system.quantity" \notin DOMAIN usage.itemUpdates

\* the step took one unit of quantity and reset the uses
TookQuantity ==
  /\ usage.returned = "updates"
  /\ "system.quantity" \in DOMAIN usage.itemUpdates
  /\ usage.itemUpdates["system.quantity"] = QuantityLeft - 1
  /\ "system.uses.value" \in DOMAIN usage.itemUpdates
  /\ usage.itemUpdates["system.uses.value"] =
       (IF IsNull(world0.item.uses.max) THEN 1 ELSE Val(world0.item.uses.max))

\* a unit of quantity may be taken
QuantityAvailable == config.consumeQuantity /\ QuantityLeft >= 1

(* C18 as stated: with at least one use left the limited-uses step takes   *)
(* one use and leaves the quantity unchanged; with none left it takes a    *)
(* unit of quantity and resets the uses; it fails only if neither can be   *)
(* taken.                                                                  *)
C18_QuantityOnlyAsFallback ==
  UsageStep =>
    IF world0.item.uses.value >= 1 THEN TookUse
    ELSE IF QuantityAvailable THEN TookQuantity
    ELSE usage.returned = "false"

(* C18 as amended: with at least one use left the step takes one use and   *)
(* leaves the quantity unchanged, unless that use is the last one and a    *)
(* unit of quantity may be taken (consumeQuantity set, quantity at least   *)
(* 1): then, as when no use is left, it takes a unit of quantity and       *)
(* resets the uses; it fails only if neither can be taken.                 *)
C18_QuantityWhenUsesRunOut ==
  UsageStep =>
    IF world0.item.uses.value >= 2 \/ (world0.item.uses.value = 1 /\ ~QuantityAvailable)
    THEN TookUse
    ELSE IF QuantityAvailable THEN TookQuantity
    ELSE usage.returned = "false"

\* the last use of an item of quantity 2 is taken with consumeQuantity set
C18_Witness ==
  /\ UsageStep
  /\ world0.item.uses.value = 1 /\ world0.item.uses.max = Some(MaxUses)
  /\ config.consumeQuantity /\ world0.item.quantity = Some(2)
  /\ usage.itemUpdates["system.quantity"] = 1
  /\ usage.itemUpdates["system.uses.value"] = MaxUses

\* _scaleDamage was called with times >= 1
ScaleApplied == dmg.phase = "scaled" /\ dmg.scaled >= 1

\* the scaling formula _scaleDamage was given, altered by times
ScaledFormula ==
  Alter(IF dmg.branch = "cantrip" THEN CantripScale ELSE dmg.item.scaling.formula,
        dmg.scaled)

\* the formula is one die term
SingleDie(formula) == Len(formula) = 1 /\ formula[1].kind = "Die"

\* die terms of the same face count and modifiers
LikeDice(d, e) ==
  d.kind = "Die" /\ e.kind = "Die" /\ d.faces = e.faces /\ d.modifiers = e.modifiers

\* the first part with the number of the scaled die added to its leading die
Merged ==
  [dmg.parts0[1] EXCEPT ![1].number = @ + ScaledFormula[1].number]

(* C19 as stated: with times >= 1 the scaled formula is merged into the    *)
(* first part, die counts added, only when the first part and the scaled   *)
(* formula are each a single die term of the same face count and           *)
(* modifiers; otherwise the first part becomes the first part followed by  *)
(* " + " and the scaled formula; the later parts are not changed.          *)
C19_MergesSingleDiceOnly ==
  ScaleApplied =>
    /\ dmg.parts[1] =
         (IF SingleDie(dmg.parts0[1]) /\ SingleDie(ScaledFormula)
             /\ LikeDice(dmg.parts0[1][1], ScaledFormula[1])
          THEN Merged
          ELSE dmg.parts0[1] \o ScaledFormula)
    /\ Tail(dmg.parts) = Tail(dmg.parts0)

(* C19 as amended: with times >= 1 the scaled formula is merged, die       *)
(* counts added, when it is a single die term and the first term of the    *)
(* first part is a die of the same face count and modifiers, whatever      *)
(* terms follow it in the first part; otherwise the first part becomes the *)
(* first part followed by " + " and the scaled formula; the later parts    *)
(* are not changed.                                                        *)
C19_MergesIntoLeadingDie ==
  ScaleApplied =>
    /\ dmg.parts[1] =
         (IF SingleDie(ScaledFormula) /\ LikeDice(dmg.parts0[1][1], ScaledFormula[1])
          THEN Merged
          ELSE dmg.parts0[1] \o ScaledFormula)
    /\ Tail(dmg.parts) = Tail(dmg.parts0)

\* 1d6 + 2 upcast by two levels of 1d6 becomes 3d6 + 2
C19_Witness ==
  /\ ScaleApplied /\ dmg.branch = "level" /\ dmg.scaled = 2
  /\ dmg.parts0[1] = <<Die(1, 6, <<>>), NumericTerm(2)>>
  /\ dmg.item.scaling.formula = <<Die(1, 6, <<>>)>>
  /\ dmg.parts[1] = <<Die(3, 6, <<>>), NumericTerm(2)>>

(* C20: when nothing is to be added (the add count of _scaleCantripDamage  *)
(* is zero, the upcast difference of _scaleSpellDamage is zero, times <= 0 *)
(* in _scaleDamage) the parts array is left unchanged and the function     *)
(* returns those original parts.                                           *)
C20_ZeroScalingReturnsParts ==
  (dmg.phase = "scaled" /\ dmg.branch \in {"cantrip", "level"} /\ dmg.scaled = 0) =>
    /\ dmg.parts = dmg.parts0
    /\ dmg.returned = dmg.parts0

\* getCriticalThreshold was called on an item with an attack
CriticalResolved ==
  /\ derived.phase = "done" /\ derived.fn = "getCriticalThreshold"
  /\ derived.item.actionType \in {"mwak", "rwak", "msak", "rsak"}

\* the thresholds that count: the item's own if set, the actor's flag for a
\* weapon or a spell (20 when it is absent, and for the other kinds), the
\* ammunition's if the item consumes ammunition that is there and has one
CriticalCandidates ==
  derived.item.threshold
  \cup (IF derived.item.type = "weapon" /\ ~IsNull(derived.flags.weaponCriticalThreshold)
        THEN derived.flags.weaponCriticalThreshold
        ELSE IF derived.item.type = "spell" /\ ~IsNull(derived.flags.spellCriticalThreshold)
        THEN derived.flags.spellCriticalThreshold
        ELSE {20})
  \cup (IF derived.item.consume.type = "ammo" /\ "ammo1" \in DOMAIN derived.items
        THEN derived.items["ammo1"].threshold ELSE {})

AdvancementPrepared ==
  /\ derived.phase = "done" /\ derived.fn = "_prepareAdvancement"
  /\ ~derived.result.threw

\* the entries of a list
Entries(list) == {list[i] : i \in 1..Len(list)}

(* C11: after _prepareAdvancement a valid advancement is in byLevel[l] for *)
(* exactly the levels l of its level set, and it is in needingConfiguration *)
(* if and only if its level set is empty.                                  *)
C11_AdvancementBuckets ==
  AdvancementPrepared =>
    \A a \in Entries(derived.item.advancement) :
      a.valid =>
        /\ \A l \in DOMAIN derived.result.byLevel :
             a \in Entries(derived.result.byLevel[l]) <=> l \in Entries(a.levels)
        /\ a \in Entries(derived.result.needingConfiguration) <=> a.levels = <<>>

\* the spec's example: levels {3, 5} are in byLevel[3] and byLevel[5] only, an
\* empty level set is in needingConfiguration only
C11_Witness ==
  /\ AdvancementPrepared
  /\ Len(derived.item.advancement) = 2
  /\ derived.item.advancement[1].valid /\ derived.item.advancement[1].levels = <<3, 5>>
  /\ derived.item.advancement[2].valid /\ derived.item.advancement[2].levels = <<>>
  /\ derived.result.byLevel[3] = <<derived.item.advancement[1]>>
  /\ derived.result.byLevel[5] = <<derived.item.advancement[1]>>
  /\ derived.result.needingConfiguration = <<derived.item.advancement[2]>>

(* C25: _prepareAdvancement never raises: it completes for every            *)
(* advancement list, a valid advancement with a level outside the item's   *)
(* bucket range (0 on a class or subclass item, a level above the maximum  *)
(* character level) included.                                              *)
C25_PrepareAdvancementCompletes ==
  (derived.phase = "done" /\ derived.fn = "_prepareAdvancement") => ~derived.result.threw

(* C27: whenever consumeSpellSlot is set and _getUsageUpdates succeeds,    *)
(* actorUpdates holds the decrement of exactly one spell-slot pool, also   *)
(* when consumeSpellLevel is null or 0.                                    *)
C27_SlotAskedSlotTaken ==
  (Succeeded /\ config.consumeSpellSlot) =>
    \E pool \in SpellPools :
      /\ (DOMAIN usage.actorUpdates) \cap SpellPools = {pool}
      /\ pool \in DOMAIN world0.sys
      /\ usage.actorUpdates[pool] = world0.sys[pool] - 1

(* C28: use() deletes the item only when this usage itself decremented the *)
(* item's quantity to zero: a usage whose itemUpdates hold no quantity     *)
(* decrement never deletes the item.                                       *)
C28_DeletesOnlyWhatItEmptied ==
  \A p \in Callers :
    "item.delete" \in procs[p].applied =>
      /\ "system.quantity" \in DOMAIN procs[p].usage.itemUpdates
      /\ procs[p].usage.itemUpdates["system.quantity"] = 0

\* every counter of the documents is non-negative and no class has used more
\* hit dice than it has levels
NonNegativeCounters(w) ==
  /\ w.item.uses.value >= 0
  /\ \A q \in w.item.quantity : q >= 0
  /\ \A x \in w.item.uses.max : x >= 0
  /\ \A path \in DOMAIN w.sys : w.sys[path] >= 0
  /\ \A id \in DOMAIN w.items :
       /\ w.items[id].quantity >= 0
       /\ w.items[id].uses.value >= 0
       /\ w.items[id].hitDiceUsed >= 0
       /\ w.items[id].hitDiceUsed <= w.items[id].levels

AmountNonNegative(w) == \A a \in w.item.consume.amount : a >= 0

NumericKeys == {"system.uses.value", "system.quantity", "system.hitDiceUsed"}

\* the documents once the three buckets of the resolution are written to them
Committed ==
  ApplyResourceUpdates(
    ApplyActorUpdates(ApplyItemUpdates(world0, usage.itemUpdates), usage.actorUpdates),
    usage.resourceUpdates)

(* C30: from documents whose counters are all non-negative, with           *)
(* hitDiceUsed at most the class's levels and a non-negative               *)
(* consume.amount, a successful _getUsageUpdates places only non-negative  *)
(* numbers in its buckets and a hitDiceUsed between 0 and the class's      *)
(* levels, and the documents with the buckets written to them are again    *)
(* such documents, so the same holds after any sequence of usages.         *)
C30_CountersStayNonNegative ==
  (Succeeded /\ NonNegativeCounters(world0) /\ AmountNonNegative(world0)) =>
    /\ \A k \in DOMAIN usage.itemUpdates \cap NumericKeys : usage.itemUpdates[k] >= 0
    /\ \A path \in DOMAIN usage.actorUpdates : usage.actorUpdates[path] >= 0
    /\ \A i \in DOMAIN usage.resourceUpdates :
         LET u == usage.resourceUpdates[i]
         IN /\ \A k \in DOMAIN u.changes \cap NumericKeys : u.changes[k] >= 0
            /\ "system.hitDiceUsed" \in DOMAIN u.changes =>
                 u.changes["system.hitDiceUsed"] <= world0.items[u.id].levels
    /\ NonNegativeCounters(Committed)

C30_Witness ==
  /\ Succeeded /\ NonNegativeCounters(world0) /\ AmountNonNegative(world0)
  /\ config.consumeResource /\ config.consumeUsage
  /\ world0.item.consume.amount = Some(MaxAmount)
  /\ \E i \in DOMAIN usage.resourceUpdates :
       /\ "system.hitDiceUsed" \in DOMAIN usage.resourceUpdates[i].changes
       /\ usage.resourceUpdates[i].changes["system.hitDiceUsed"] =
            world0.items[usage.resourceUpdates[i].id].levels
  /\ "system.uses.value" \in DOMAIN usage.itemUpdates
  /\ usage.itemUpdates["system.uses.value"] = 0

AbilityResolved == derived.phase = "done" /\ derived.fn = "abilityMod"

OwnedWithAbilities == derived.owner # None /\ Val(derived.owner).hasAbilities

\* the item has no ability of its own and belongs to an actor with abilities
Inferred == AbilityResolved /\ derived.item.ability = "" /\ OwnedWithAbilities

Spellcasting ==
  IF Val(derived.owner).spellcasting = "" THEN "int" ELSE Val(derived.owner).spellcasting

Finesse == derived.item.type = "weapon" /\ derived.item.fin

Ranged == derived.item.type = "weapon" /\ derived.item.weaponType = "martialR"

\* the higher of the strength and dexterity modifiers (either when they tie)
HigherOfStrDex ==
  {a \in {"str", "dex"} :
     \A b \in {"str", "dex"} : Val(derived.owner)[a] >= Val(derived.owner)[b]}

\* the ability the action type stands for, if it is an attack
ByActionType ==
  CASE derived.item.actionType = "mwak" -> Some("str")
    [] derived.item.actionType = "rwak" -> Some("dex")
    [] derived.item.actionType \in {"msak", "rsak"} -> Some(Spellcasting)
    [] OTHER -> None

(* C21, as stated: an explicit ability wins; otherwise, owned by an actor  *)
(* with abilities, spells and tools use the spellcasting ability or        *)
(* intelligence, finesse weapons the higher of strength and dexterity,     *)
(* ranged weapons dexterity, failing that the action type decides; in      *)
(* every other case the result is null.                                    *)
C21_AbilityPrecedence ==
  AbilityResolved =>
    IF derived.item.ability # "" THEN derived.result = Some(derived.item.ability)
    ELSE IF ~OwnedWithAbilities THEN derived.result = None
    ELSE IF derived.item.type \in {"spell", "tool"} THEN derived.result = Some(Spellcasting)
    ELSE IF Finesse THEN derived.result \subseteq HigherOfStrDex /\ derived.result # None
    ELSE IF Ranged THEN derived.result = Some("dex")
    ELSE derived.result = ByActionType

(* C21, amended: as stated, but a tool always uses intelligence, a scroll  *)
(* consumable uses the spellcasting ability or intelligence as a spell     *)
(* does, and a finesse weapon whose two modifiers tie uses dexterity.      *)
C21_AbilityPrecedenceAmended ==
  /\ (AbilityResolved /\ derived.item.ability # "") =>
       derived.result = Some(derived.item.ability)
  /\ (AbilityResolved /\ derived.item.ability = "" /\ ~OwnedWithAbilities) =>
       derived.result = None
  /\ (Inferred /\ derived.item.type = "tool") => derived.result = Some("int")
  /\ (Inferred /\ (derived.item.type = "spell" \/ derived.item.consumableType = "scroll")) =>
       derived.result = Some(Spellcasting)
  /\ (Inferred /\ Finesse) =>
       /\ derived.result \subseteq HigherOfStrDex /\ derived.result # None
       /\ Val(derived.owner).dex = Val(derived.owner).str => derived.result = Some("dex")
  /\ (Inferred /\ Ranged /\ ~Finesse) => derived.result = Some("dex")
  /\ (Inferred /\ derived.item.type \notin {"tool", "spell"}
        /\ derived.item.consumableType # "scroll" /\ ~Finesse /\ ~Ranged) =>
       derived.result = ByActionType

\* a tool of an actor whose spellcasting ability is wisdom
C21_Witness ==
  /\ Inferred /\ derived.item.type = "tool"
  /\ Val(derived.owner).spellcasting = "wis"
  /\ derived.result = Some("int")

SaveResolved == derived.phase = "done" /\ derived.fn = "getSaveDC"

\* the item requires a saving throw: it names the ability saved with and a scaling
RequiresSave ==
  SaveResolved /\ derived.item0.save.ability # "" /\ derived.item0.save.scaling # ""

AbilityScaled == RequiresSave /\ derived.item0.save.scaling \notin {"spell", "flat"}

(* C23: for an item that requires a saving throw, getSaveDC yields the     *)
(* actor's spell save DC when scaling is "spell", the named ability's DC   *)
(* when scaling is an ability and the stored value when scaling is "flat"; *)
(* for an unowned item a spell- or ability-scaled DC is null; an item      *)
(* without a save yields null and its stored DC is left untouched.         *)
C23_SaveDC ==
  /\ (RequiresSave /\ derived.item0.save.scaling = "spell" /\ derived.owner # None) =>
       derived.result = Some(Val(derived.owner).spelldc)
  /\ (AbilityScaled /\ derived.owner # None) =>
       derived.result = Some(Val(derived.owner).abilities[derived.item0.save.scaling])
  /\ (RequiresSave /\ derived.item0.save.scaling = "flat") =>
       /\ derived.result = derived.item0.save.dc
       /\ derived.item.save.dc = derived.item0.save.dc
  /\ (RequiresSave /\ derived.item0.save.scaling # "flat" /\ derived.owner = None) =>
       derived.result = None
  /\ (SaveResolved /\ ~RequiresSave) =>
       /\ derived.result = None
       /\ derived.item.save.dc = derived.item0.save.dc

\* an owned item saved against with dexterity whose DC scales with constitution
C23_Witness ==
  /\ AbilityScaled /\ derived.owner # None
  /\ derived.item0.save.ability = "dex" /\ derived.item0.save.scaling = "con"
  /\ Val(derived.owner).abilities["dex"] # Val(derived.owner).abilities["con"]
  /\ derived.item0.save.dc = Some(16)
  /\ derived.result = Some(Val(derived.owner).abilities["con"])

AttackResolved ==
  /\ derived.phase = "done" /\ derived.fn = "getAttackToHit"
  /\ derived.item.actionType \in {"mwak", "rwak", "msak", "rsak"}

\* the term of the item's own bonus, if it is set
OwnBonusTerm == IF derived.item.attackBonus = "" THEN <<>> ELSE <<derived.item.attackBonus>>

\* weapons and consumables need the proficient flag, other items do not
ProficiencyTerm ==
  IF derived.item.type \in {"weapon", "consumable"} /\ derived.item.proficient # Some(TRUE)
  THEN <<>> ELSE <<"@prof">>

\* the actor's global attack bonus for the item's action type, if it is set
GlobalBonusTerm ==
  LET bonuses == Val(derived.owner).bonuses
  IN IF derived.item.actionType \in DOMAIN bonuses
        /\ bonuses[derived.item.actionType].attack # ""
     THEN <<bonuses[derived.item.actionType].attack>> ELSE <<>>

\* the ammunition the item consumes gives a bonus
AmmoUsable ==
  /\ derived.item.consume.type = "ammo"
  /\ \E id \in DOMAIN Val(derived.owner).items :
       LET ammo == Val(derived.owner).items[id]
       IN /\ id = derived.item.consume.target
          /\ ammo.type = "consumable" /\ ammo.consumableType = "ammo"
          /\ ammo.attackBonus # ""
          /\ ammo.quantity # 0
          /\ \A a \in derived.item.consume.amount : ammo.quantity >= a

AmmoTerm == IF AmmoUsable THEN <<"@ammo">> ELSE <<>>

Linked ==
  LET id == derived.returned.by
  IN {i \in Range(derived.items) :
        /\ ItemType(i) # ItemType(id)
        /\ derived.identifier[i] = derived.identifier[id]}

(* C24: after any sequence of adding and removing class and subclass       *)
(* items and of data-preparation passes, the class getter of a subclass    *)
(* returns the class now on the actor whose identifier is the subclass's   *)
(* classIdentifier (nothing if there is none), and the subclass getter of  *)
(* a class the subclass now on the actor that names it: a cached link is   *)
(* never returned once its item is removed or no longer matches.           *)
C24_LinkIsCurrent ==
  (derived.phase = "linked" /\ derived.returned.get # ""
     /\ derived.returned.get # ItemType(derived.returned.by)) =>
    /\ derived.returned.value \subseteq Linked
    /\ Linked # {} => derived.returned.value # None

AttackCalled == derived.phase = "attack" /\ calls > 0 /\ HasAttack(world0.item)

AttackEnded == AttackCalled /\ derived.pc = "idle"

UsesAmmo == world0.item.consume.type = "ammo"

\* consume.amount, 1 when it is unset
AmmoAmount == IF world0.item.consume.amount = None THEN 1 ELSE Val(world0.item.consume.amount)

\* no ammunition is named, the item named is gone, or it holds too little
AmmoCannotBeConsumed ==
  /\ UsesAmmo
  /\ \/ world0.item.consume.target \notin DOMAIN world0.items
     \/ world0.items[world0.item.consume.target].quantity < AmmoAmount

(* C26: ammunition is consumed only when the attack roll is made: if the   *)
(* ammunition cannot be consumed rollAttack returns null without rolling;  *)
(* if the dnd5e.preRollAttack hook vetoes or the roll is cancelled no      *)
(* ammunition update is applied; the update is applied exactly once, after *)
(* a completed roll.  By default use() of an item with an attack that      *)
(* consumes ammunition does not consume the ammunition itself.             *)
C26_AmmoConsumedByTheRoll ==
  /\ (AttackEnded /\ AmmoCannotBeConsumed) =>
       derived.returned = "null" /\ derived.rolls = 0 /\ derived.applied = 0
  /\ (AttackEnded /\ derived.returned \in {"undefined", "null"}) =>
       derived.applied = 0 /\ world.items = world0.items
  /\ (AttackCalled /\ derived.pc \in {"d20Roll", "ammoUpdate"}) =>
       derived.applied = 0 /\ world.items = world0.items
  /\ (AttackEnded /\ derived.returned = "roll") =>
       /\ derived.rolls = 1
       /\ derived.applied = IF UsesAmmo THEN 1 ELSE 0
       /\ IF UsesAmmo
          THEN world.items =
                 [world0.items EXCEPT ![world0.item.consume.target].quantity = @ - AmmoAmount]
          ELSE world.items = world0.items
  /\ (derived.phase = "attack" /\ HasAttack(world.item) /\ world.item.consume.type = "ammo") =>
       ~DefaultConfig(world.item).consumeResource

\* a second attack that was cancelled after a first one took its ammunition
C26_Witness ==
  /\ AttackEnded /\ UsesAmmo /\ calls = 2
  /\ derived.returned = "null" /\ derived.rolls = 1 /\ derived.applied = 0
  /\ world0.items["ammo1"].quantity = 1
  /\ world.items["ammo1"].quantity = 1
  /\ AmmoAmount = 1

\* the call of p was a successful use that consumed the item's recharge
TookRecharge(p) ==
  /\ procs[p].outcome = "used"
  /\ "system.recharge.charged" \in DOMAIN procs[p].usage.itemUpdates

\* charged is set to true by a roll that succeeded, and by nothing for an
\* item without a recharge value
RechargedOnlyByRoll ==
  derived.phase = "recharge" =>
    /\ (world.item.recharge.charged = Some(TRUE)
          /\ world0.item.recharge.charged # Some(TRUE)) => derived.succeeded > 0
    /\ world.item.recharge.value = None =>
         derived.succeeded = 0 /\ world.item.recharge = world0.item.recharge

(* C29: between any two successful recharge-consuming uses there is a      *)
(* successful recharge roll: once a use has consumed the recharge every    *)
(* further resolution with consumeRecharge fails until rollRecharge        *)
(* succeeds.                                                               *)
C29_RechargeBetweenUses ==
  derived.phase = "recharge" =>
    \A p, q \in Callers :
      (p # q /\ TookRecharge(p) /\ TookRecharge(q)) => derived.succeeded > 0

====
